---- MODULE Spec2Model ----
(***************************************************************************)
(* A model of the report-parsing engine of tools_etl.py:                   *)
(*   _parse_multi_table_csv   (SpecMulti)                                  *)
(*   _parse_single_table_csv  (SpecSingle)                                 *)
(*   the join of export_ppm_data (SpecJoin)                                *)
(*   the helper functions called on their own (SpecHelper)                 *)
(*   calls of the two parsers side by side and in sequence (SpecCalls)     *)
(*   check_required_tools (SpecCheck), export_processes_data (SpecExport)  *)
(*   a LogSpinner context (SpecSpinner)                                    *)
(* and of process_tool_outputs of app.py (SpecOutputs).                    *)
(* Text is modelled by TLA+ strings, processed character by character the  *)
(* way str.strip, str.split and the regular expression of the source do.   *)
(* A Python dict is a sequence of <<key, value>> pairs with unique keys,   *)
(* in insertion order.  A value that may be None is a sequence of length   *)
(* 0 (None) or 1 (the value).                                              *)
(***************************************************************************)
EXTENDS Integers, Sequences, FiniteSets, TLC

VARIABLES
    \* ---- the call being made ----
    fileState,      \* the file: "missing", "unreadable" or "readable"
    file,           \* the raw lines of a readable file
    col_name_map,   \* the col_name_map argument (None or a dict)
    \* ---- _parse_multi_table_csv ----
    pcMulti,        \* position in the function: "idle", "start", "scan", "done"
    lines,          \* lines: the stripped lines
    i,              \* i: the scan index (0-based, as in the source)
    current_title,  \* current_title (None or a string)
    tables,         \* tables: dict title -> list of row dicts
    stored,         \* history: one record per table stored
    visited,        \* history: one record per iteration of the outer loop
    \* ---- _parse_single_table_csv ----
    pcSingle,       \* position in the function: "idle", "start", "rows", "done"
    group_by,       \* the group_by argument (None or a list of names)
    fieldnames,     \* reader.fieldnames
    group_keys,     \* group_keys: list of (target_name, actual_key)
    k_runtime,      \* k_runtime (None or a header token)
    pos,            \* the number of lines the reader has consumed
    summary,        \* summary: dict key tuple -> running sum
    result,         \* result
    log,            \* the warnings logged
    outcome,        \* how the call ended: "", "returned", "missing", "raised"
    \* ---- export_ppm_data ----
    pcJoin,                     \* position: "idle", "start", "map", "loop",
                                \* "filter", "done"
    profilerundown_data,        \* the left table: list of row dicts
    profilesettingrundown_data, \* the right table: list of row dicts
    profiles_map,               \* dict ProfileId (or None) -> left row
    settingIndex,               \* the number of right rows the loop has taken
    data,                       \* data
    \* ---- a call of one of the helper functions ----
    pcHelper,       \* position: "idle", "call", "done"
    helper,         \* the function called
    argFields,      \* the argument of _feels_like_header
    argVal,         \* the argument of a formatter
    returns,        \* history: the values returned so far
    \* ---- calls of the two parsers made side by side and in sequence ----
    default_group_by,   \* the list object bound to group_by when the
                        \* argument is omitted: one object for all calls
    frames,             \* caller -> the arguments and locals of its call
    returned,           \* history: caller -> the values its calls returned
    \* ---- check_required_tools ----
    pcCheck,            \* position: "idle", "start", "wpr", "wpaexporter",
                        \* "etlwatch", "done"
    wpr_on_path,        \* the machine: wpr is on PATH
    toolkit_exes,       \* the machine: the common_paths that hold wpaexporter.exe
    etlwatch_root,      \* the machine: the etlwatch folder exists
    version_folders,    \* the machine: its folders that start with "v"
    etlwatch_exes,      \* the machine: the version folders that hold ETLWatch.exe
    check_wpr,          \* check_wpr (None until it is set)
    check_wpaexporter,  \* check_wpaexporter
    check_etlwatch,     \* check_etlwatch
    checked,            \* the value returned (None until the call returns)
    \* ---- export_processes_data ----
    pcExport,           \* position: "idle", "start", "stats", "parse", "select", "done"
    table_name,         \* the table_name argument
    export_ok,          \* the machine: _etlwatch_etl_to_csv succeeds
    stats_exists,       \* the machine: the stats report exists after the export
    stats_report,       \* the machine: what _parse_multi_table_csv makes of it
    selected,           \* the three tables picked from data (None until picked)
    exported,           \* the value returned (None until the call returns)
    \* ---- a LogSpinner context around a call ----
    pcMain,             \* the caller: "idle", "enter", "start", "call", "exit", "join", "exited"
    pcSpin,             \* the thread: "unstarted", "test", "write", "sleep", "clear", "terminated"
    message,            \* self.message
    running,            \* self.running
    thread,             \* self.thread (None or the thread)
    spinner,            \* self.spinner: the position in the cycle of four characters
    stdout,             \* the last write to sys.stdout (None before the first)
    call_raised,        \* the wrapped call ended with an exception
    \* ---- process_tool_outputs (app.py) ----
    pcOutputs,          \* position: "idle", "loop", "done"
    messages,           \* state["messages"]
    cursor,             \* the number of messages the reversed loop has still to take
    updates             \* updates: dict state key -> data

varsCall == <<fileState, file, col_name_map>>

varsMulti == <<pcMulti, lines, i, current_title, tables, stored, visited>>

varsSingle == <<pcSingle, group_by, fieldnames, group_keys, k_runtime, pos,
                summary, result, log, outcome>>

varsJoin == <<pcJoin, profilerundown_data, profilesettingrundown_data,
              profiles_map, settingIndex, data>>

varsHelper == <<pcHelper, helper, argFields, argVal, returns>>

varsCalls == <<default_group_by, frames, returned>>

varsCheck == <<pcCheck, wpr_on_path, toolkit_exes, etlwatch_root, version_folders,
               etlwatch_exes, check_wpr, check_wpaexporter, check_etlwatch, checked>>

varsExport == <<pcExport, table_name, export_ok, stats_exists, stats_report, selected,
                exported>>

varsSpinner ==
    <<pcMain, pcSpin, message, running, thread, spinner, stdout, call_raised>>

varsOutputs == <<pcOutputs, messages, cursor, updates>>

vars == <<varsCall, varsMulti, varsSingle, varsJoin, varsHelper, varsCalls,
          varsCheck, varsExport, varsSpinner, varsOutputs>>

\* what the actions of one function leave alone
othersMulti ==
    <<varsSingle, varsJoin, varsHelper, varsCalls, varsCheck, varsExport,
      varsSpinner, varsOutputs>>

othersSingle ==
    <<varsMulti, varsJoin, varsHelper, varsCalls, varsCheck, varsExport,
      varsSpinner, varsOutputs>>

othersJoin ==
    <<varsCall, varsMulti, varsSingle, varsHelper, varsCalls, varsCheck,
      varsExport, varsSpinner, varsOutputs>>

othersHelper ==
    <<varsCall, varsMulti, varsSingle, varsJoin, varsCalls, varsCheck,
      varsExport, varsSpinner, varsOutputs>>

othersCalls ==
    <<varsCall, varsMulti, varsSingle, varsJoin, varsHelper, varsCheck,
      varsExport, varsSpinner, varsOutputs>>

othersCheck ==
    <<varsCall, varsMulti, varsSingle, varsJoin, varsHelper, varsCalls,
      varsExport, varsSpinner, varsOutputs>>

othersExport ==
    <<varsCall, varsMulti, varsSingle, varsJoin, varsHelper, varsCalls,
      varsCheck, varsSpinner, varsOutputs>>

othersSpinner ==
    <<varsCall, varsMulti, varsSingle, varsJoin, varsHelper, varsCalls,
      varsCheck, varsExport, varsOutputs>>

othersOutputs ==
    <<varsCall, varsMulti, varsSingle, varsJoin, varsHelper, varsCalls,
      varsCheck, varsExport, varsSpinner>>

\* group_by: list[str] = ["Process", "CPU", "Qos"]
DefaultGroupBy == <<"Process", "CPU", "Qos">>

\* no calls are made side by side
IdleCalls ==
    /\ default_group_by = DefaultGroupBy
    /\ frames = <<>>
    /\ returned = <<>>

\* check_required_tools is not running
IdleCheck ==
    /\ pcCheck = "idle"
    /\ wpr_on_path = FALSE
    /\ toolkit_exes = {}
    /\ etlwatch_root = FALSE
    /\ version_folders = {}
    /\ etlwatch_exes = {}
    /\ check_wpr = <<>>
    /\ check_wpaexporter = <<>>
    /\ check_etlwatch = <<>>
    /\ checked = <<>>

\* export_processes_data is not running
IdleExport ==
    /\ pcExport = "idle"
    /\ table_name = ""
    /\ export_ok = FALSE
    /\ stats_exists = FALSE
    /\ stats_report = <<>>
    /\ selected = <<>>
    /\ exported = <<>>

\* no LogSpinner is in use
IdleSpinner ==
    /\ pcMain = "idle"
    /\ pcSpin = "unstarted"
    /\ message = ""
    /\ running = FALSE
    /\ thread = <<>>
    /\ spinner = 0
    /\ stdout = <<>>
    /\ call_raised = FALSE

\* process_tool_outputs is not running
IdleOutputs ==
    /\ pcOutputs = "idle"
    /\ messages = <<>>
    /\ cursor = 0
    /\ updates = <<>>

\* no helper function is being called on its own
IdleHelper ==
    /\ pcHelper = "idle"
    /\ helper = ""
    /\ argFields = <<>>
    /\ argVal = ""
    /\ returns = <<>>

\* export_ppm_data is not running
IdleJoin ==
    /\ pcJoin = "idle"
    /\ profilerundown_data = <<>>
    /\ profilesettingrundown_data = <<>>
    /\ profiles_map = <<>>
    /\ settingIndex = 0
    /\ data = <<>>

(***************************************************************************)
(* Python values                                                           *)
(***************************************************************************)
None == <<>>
Some(x) == <<x>>
IsNone(o) == o = <<>>
Unwrap(o) == o[1]

Min(a, b) == IF a < b THEN a ELSE b

\* the greatest element of a set of numbers
LastOf(S) == CHOOSE x \in S : \A y \in S : y <= x

\* zip(a, b)
Zip(a, b) == [n \in 1..Min(Len(a), Len(b)) |-> <<a[n], b[n]>>]

\* k in d
DictHas(d, k) == \E n \in 1..Len(d) : d[n][1] = k

\* d[k], for k in d
DictGet(d, k) == d[CHOOSE n \in 1..Len(d) : d[n][1] = k][2]

\* d[k] = v: an existing key keeps its position, a new key is appended
DictSet(d, k, v) ==
    IF DictHas(d, k)
    THEN [n \in 1..Len(d) |-> IF d[n][1] = k THEN <<k, v>> ELSE d[n]]
    ELSE Append(d, <<k, v>>)

\* dict(pairs)
RECURSIVE DictFromPairs(_)
DictFromPairs(pairs) ==
    IF pairs = <<>> THEN <<>>
    ELSE LET last == pairs[Len(pairs)]
         IN DictSet(DictFromPairs(SubSeq(pairs, 1, Len(pairs) - 1)), last[1], last[2])

\* m.get(k, k) for a dict m given as a function
MapGet(m, k) == IF k \in DOMAIN m THEN m[k] ELSE k

(***************************************************************************)
(* Strings                                                                 *)
(***************************************************************************)
Whitespace == {" ", "\t"}

RECURSIVE LStrip(_)
LStrip(s) == IF s # "" /\ Head(s) \in Whitespace THEN LStrip(Tail(s)) ELSE s

RECURSIVE RStrip(_)
RStrip(s) ==
    IF s # "" /\ SubSeq(s, Len(s), Len(s)) \in Whitespace
    THEN RStrip(SubSeq(s, 1, Len(s) - 1))
    ELSE s

\* str.strip()
Strip(s) == RStrip(LStrip(s))

UpperLetters == "ABCDEFGHIJKLMNOPQRSTUVWXYZ"

LowerLetters == "abcdefghijklmnopqrstuvwxyz"

\* str.lower()
RECURSIVE LowerCase(_)
LowerCase(s) ==
    IF s = "" THEN ""
    ELSE LET at == { n \in 1..Len(UpperLetters) : SubSeq(UpperLetters, n, n) = Head(s) }
         IN (IF at = {} THEN Head(s)
             ELSE LET n == CHOOSE n \in at : TRUE IN SubSeq(LowerLetters, n, n))
            \o LowerCase(Tail(s))

\* s.split(",")
RECURSIVE SplitComma(_)
SplitComma(s) ==
    IF s = "" THEN <<"">>
    ELSE IF Head(s) = "," THEN <<"">> \o SplitComma(Tail(s))
    ELSE LET r == SplitComma(Tail(s))
         IN <<Head(s) \o Head(r)>> \o Tail(r)

\* "," in s
HasComma(s) == Len(SplitComma(s)) > 1

\* [f.strip() for f in line.split(",")]
Fields(line) == LET p == SplitComma(line) IN [n \in 1..Len(p) |-> Strip(p[n])]

(***************************************************************************)
(* _feels_like_header                                                      *)
(***************************************************************************)
Digits == {"0", "1", "2", "3", "4", "5", "6", "7", "8", "9"}

\* re.IGNORECASE, on the letters of the unit suffixes
LowerChar(c) ==
    CASE c = "M" -> "m" [] c = "S" -> "s" [] c = "U" -> "u"
      [] c = "N" -> "n" [] c = "I" -> "i" [] OTHER -> c

RECURSIVE LowerStr(_)
LowerStr(s) == IF s = "" THEN "" ELSE LowerChar(Head(s)) \o LowerStr(Tail(s))

\* what is left of s after the longest prefix matching [\d.]*
RECURSIVE DropDigitsDots(_)
DropDigitsDots(s) ==
    IF s # "" /\ Head(s) \in Digits \cup {"."} THEN DropDigitsDots(Tail(s)) ELSE s

UnitSuffixes == {"%", "ms", "us", "ns", "s", "min"}

\* (mutant) the match without re.IGNORECASE
MatchesNumeric_CaseSensitive(val) ==
    LET body == IF val # "" /\ Head(val) = "-" THEN Tail(val) ELSE val
        rest == DropDigitsDots(body)
    IN /\ Len(rest) < Len(body)
       /\ rest \in UnitSuffixes \cup {""}

\* re.match(r"^-?[\d.]+(%|ms|us|ns|s|min)?$", val, re.IGNORECASE)
MatchesNumeric(val) ==
    LET body == IF val # "" /\ Head(val) = "-" THEN Tail(val) ELSE val
        rest == DropDigitsDots(body)
    IN /\ Len(rest) < Len(body)
       /\ LowerStr(rest) \in UnitSuffixes \cup {""}

_feels_like_header(fields) ==
    /\ fields # <<>>
    /\ \A n \in 1..Len(fields) : fields[n] = "" \/ ~MatchesNumeric(fields[n])

(***************************************************************************)
(* _parse_multi_table_csv                                                  *)
(***************************************************************************)
\* lines[k] of the source (0-based)
LineAt(ls, k) == ls[k + 1]

\* the inner while loop: from line j on, collects the rows whose width is
\* that of the header, until a blank line, a line without comma, or the end
RECURSIVE ScanRows(_, _, _, _)
ScanRows(ls, fields, j, rows) ==
    IF j < Len(ls) /\ LineAt(ls, j) # "" /\ HasComma(LineAt(ls, j))
    THEN LET row_data == Fields(LineAt(ls, j))
         IN ScanRows(ls, fields, j + 1,
                     IF Len(row_data) = Len(fields)
                     THEN Append(rows, DictFromPairs(Zip(fields, row_data)))
                     ELSE rows)
    ELSE [j |-> j, rows |-> rows]

\* {col_name_map.get(k, k): v for k, v in row.items()}
MapRow(m, row) ==
    DictFromPairs([n \in 1..Len(row) |-> <<MapGet(m, row[n][1]), row[n][2]>>])

\* "if col_name_map:" and the renaming of the rows
MapRows(cmap, rows) ==
    IF ~IsNone(cmap) /\ DOMAIN Unwrap(cmap) # {}
    THEN [n \in 1..Len(rows) |-> MapRow(Unwrap(cmap), rows[n])]
    ELSE rows

\* current_title or "Unnamed Table"
TitleOr(ct) == IF IsNone(ct) \/ Unwrap(ct) = "" THEN "Unnamed Table" ELSE Unwrap(ct)

\* (mutant) the title is suffixed once, without looking again
UniqueTitle_Once(tbls, title, unique_title, count) ==
    IF DictHas(tbls, unique_title) THEN title \o "_" \o ToString(count)
    ELSE unique_title

\* the loop "while unique_title in tables"
RECURSIVE UniqueTitle(_, _, _, _)
UniqueTitle(tbls, title, unique_title, count) ==
    IF DictHas(tbls, unique_title)
    THEN UniqueTitle(tbls, title, title \o "_" \o ToString(count), count + 1)
    ELSE unique_title

\* the header test and the row scan at line k
TableAt(ls, k) ==
    LET fields == Fields(LineAt(ls, k))
    IN IF _feels_like_header(fields)
       THEN ScanRows(ls, fields, k + 1, <<>>)
       ELSE [j |-> k + 1, rows |-> <<>>]

\* the file does not exist: return {}
MultiMissing ==
    /\ pcMulti = "start"
    /\ fileState = "missing"
    /\ pcMulti' = "done"
    /\ UNCHANGED <<varsCall, lines, i, current_title, tables, stored, visited,
                   othersMulti>>

\* open and readlines succeed: lines = [line.strip() for line in f.readlines()]
MultiRead ==
    /\ pcMulti = "start"
    /\ fileState = "readable"
    /\ lines' = [n \in 1..Len(file) |-> Strip(file[n])]
    /\ pcMulti' = "scan"
    /\ UNCHANGED <<varsCall, i, current_title, tables, stored, visited,
                   othersMulti>>

\* open or readlines raises: the except clause logs, tables is returned
MultiReadError ==
    /\ pcMulti = "start"
    /\ fileState = "unreadable"
    /\ pcMulti' = "done"
    /\ UNCHANGED <<varsCall, lines, i, current_title, tables, stored, visited,
                   othersMulti>>

\* an exception is raised inside the loop (a MemoryError, the AttributeError
\* of a col_name_map that is no dict, ...): the except clause logs, tables
\* is returned as it is
MultiScanError ==
    /\ pcMulti = "scan"
    /\ i < Len(lines)
    /\ pcMulti' = "done"
    /\ UNCHANGED <<varsCall, lines, i, current_title, tables, stored, visited,
                   othersMulti>>

\* an empty line is skipped
MultiBlank ==
    /\ pcMulti = "scan"
    /\ i < Len(lines)
    /\ LineAt(lines, i) = ""
    /\ i' = i + 1
    /\ visited' = Append(visited, [at |-> i, kind |-> "blank", next |-> i + 1])
    /\ UNCHANGED <<varsCall, pcMulti, lines, current_title, tables, stored,
                   othersMulti>>

\* (mutant) a title line does not replace a pending title
MultiTitle_KeepFirst ==
    /\ pcMulti = "scan"
    /\ i < Len(lines)
    /\ LineAt(lines, i) # ""
    /\ ~HasComma(LineAt(lines, i))
    /\ current_title' = IF IsNone(current_title) THEN Some(LineAt(lines, i))
                        ELSE current_title
    /\ i' = i + 1
    /\ visited' = Append(visited, [at |-> i, kind |-> "title", next |-> i + 1])
    /\ UNCHANGED <<varsCall, pcMulti, lines, tables, stored, othersMulti>>

\* a line without comma is the title of the next table
MultiTitle ==
    /\ pcMulti = "scan"
    /\ i < Len(lines)
    /\ LineAt(lines, i) # ""
    /\ ~HasComma(LineAt(lines, i))
    /\ current_title' = Some(LineAt(lines, i))
    /\ i' = i + 1
    /\ visited' = Append(visited, [at |-> i, kind |-> "title", next |-> i + 1])
    /\ UNCHANGED <<varsCall, pcMulti, lines, tables, stored, othersMulti>>

\* (mutant) the scan goes on at the last line the row loop has taken
MultiTable_RereadsLastRow ==
    /\ pcMulti = "scan"
    /\ i < Len(lines)
    /\ LineAt(lines, i) # ""
    /\ HasComma(LineAt(lines, i))
    /\ LET t == TableAt(lines, i)
           rows == MapRows(col_name_map, t.rows)
           title == TitleOr(current_title)
           unique_title == UniqueTitle(tables, title, title, 1)
       IN /\ t.rows # <<>>
          /\ tables' = DictSet(tables, unique_title, rows)
          /\ i' = t.j - 1
          /\ current_title' = None
          /\ stored' = Append(stored, [at |-> i, j |-> t.j, pending |-> current_title,
                                       title |-> title, unique_title |-> unique_title,
                                       rows |-> rows])
          /\ visited' = Append(visited, [at |-> i, kind |-> "table", next |-> t.j - 1])
    /\ UNCHANGED <<varsCall, pcMulti, lines, othersMulti>>

\* a header followed by at least one row of its width: the table is stored
MultiTable ==
    /\ pcMulti = "scan"
    /\ i < Len(lines)
    /\ LineAt(lines, i) # ""
    /\ HasComma(LineAt(lines, i))
    /\ LET t == TableAt(lines, i)
           rows == MapRows(col_name_map, t.rows)
           title == TitleOr(current_title)
           unique_title == UniqueTitle(tables, title, title, 1)
       IN /\ t.rows # <<>>
          /\ tables' = DictSet(tables, unique_title, rows)
          /\ i' = t.j
          /\ current_title' = None
          /\ stored' = Append(stored, [at |-> i, j |-> t.j, pending |-> current_title,
                                       title |-> title, unique_title |-> unique_title,
                                       rows |-> rows])
          /\ visited' = Append(visited, [at |-> i, kind |-> "table", next |-> t.j])
    /\ UNCHANGED <<varsCall, pcMulti, lines, othersMulti>>

\* (mutant) the record is put in front of the Metadata entry
MultiMetadata_Prepend ==
    /\ pcMulti = "scan"
    /\ i < Len(lines)
    /\ LineAt(lines, i) # ""
    /\ HasComma(LineAt(lines, i))
    /\ TableAt(lines, i).rows = <<>>
    /\ LET fields == Fields(LineAt(lines, i))
           created == IF DictHas(tables, "Metadata") THEN tables
                      ELSE DictSet(tables, "Metadata", <<>>)
           record == <<<<"Property", fields[1]>>, <<"Value", fields[2]>>>>
       IN /\ Len(fields) = 2
          /\ tables' = DictSet(created, "Metadata",
                               <<record>> \o DictGet(created, "Metadata"))
    /\ i' = i + 1
    /\ visited' = Append(visited, [at |-> i, kind |-> "metadata", next |-> i + 1])
    /\ UNCHANGED <<varsCall, pcMulti, lines, current_title, stored,
                   othersMulti>>

\* a comma line that starts no table and has two fields: a Metadata record
MultiMetadata ==
    /\ pcMulti = "scan"
    /\ i < Len(lines)
    /\ LineAt(lines, i) # ""
    /\ HasComma(LineAt(lines, i))
    /\ TableAt(lines, i).rows = <<>>
    /\ LET fields == Fields(LineAt(lines, i))
           created == IF DictHas(tables, "Metadata") THEN tables
                      ELSE DictSet(tables, "Metadata", <<>>)
           record == <<<<"Property", fields[1]>>, <<"Value", fields[2]>>>>
       IN /\ Len(fields) = 2
          /\ tables' = DictSet(created, "Metadata",
                               Append(DictGet(created, "Metadata"), record))
    /\ i' = i + 1
    /\ visited' = Append(visited, [at |-> i, kind |-> "metadata", next |-> i + 1])
    /\ UNCHANGED <<varsCall, pcMulti, lines, current_title, stored,
                   othersMulti>>

\* (mutant) the scan goes on after the lines the row loop has passed
MultiOther_SkipsScanned ==
    /\ pcMulti = "scan"
    /\ i < Len(lines)
    /\ LineAt(lines, i) # ""
    /\ HasComma(LineAt(lines, i))
    /\ TableAt(lines, i).rows = <<>>
    /\ Len(Fields(LineAt(lines, i))) # 2
    /\ i' = TableAt(lines, i).j
    /\ visited' = Append(visited, [at |-> i, kind |-> "other",
                                   next |-> TableAt(lines, i).j])
    /\ UNCHANGED <<varsCall, pcMulti, lines, current_title, tables, stored,
                   othersMulti>>

\* (mutant) the scan index is left where it is
MultiOther_Stays ==
    /\ pcMulti = "scan"
    /\ i < Len(lines)
    /\ LineAt(lines, i) # ""
    /\ HasComma(LineAt(lines, i))
    /\ TableAt(lines, i).rows = <<>>
    /\ Len(Fields(LineAt(lines, i))) # 2
    /\ i' = i
    /\ visited' = Append(visited, [at |-> i, kind |-> "other", next |-> i])
    /\ UNCHANGED <<varsCall, pcMulti, lines, current_title, tables, stored,
                   othersMulti>>

\* a comma line that starts no table and has not two fields: nothing is kept
MultiOther ==
    /\ pcMulti = "scan"
    /\ i < Len(lines)
    /\ LineAt(lines, i) # ""
    /\ HasComma(LineAt(lines, i))
    /\ TableAt(lines, i).rows = <<>>
    /\ Len(Fields(LineAt(lines, i))) # 2
    /\ i' = i + 1
    /\ visited' = Append(visited, [at |-> i, kind |-> "other", next |-> i + 1])
    /\ UNCHANGED <<varsCall, pcMulti, lines, current_title, tables, stored,
                   othersMulti>>

\* the end of the lines: return tables
MultiReturn ==
    /\ pcMulti = "scan"
    /\ i >= Len(lines)
    /\ pcMulti' = "done"
    /\ UNCHANGED <<varsCall, lines, i, current_title, tables, stored, visited,
                   othersMulti>>

\* _parse_single_table_csv is not running
IdleSingle ==
    /\ pcSingle = "idle"
    /\ group_by = None
    /\ fieldnames = None
    /\ group_keys = <<>>
    /\ k_runtime = None
    /\ pos = 0
    /\ summary = <<>>
    /\ result = <<>>
    /\ log = {}
    /\ outcome = ""

\* ---- the inputs of _parse_multi_table_csv ----
MaxBlocks == 3

\* the pieces the input files are made of: a blank line, a title line, a
\* titled table, an untitled table, a three-column header over a two-field
\* data line, a two-column header over a three-field data line
Blocks ==
    { <<"">>,
      <<"T_1 ">>,
      <<"T", "A, B", "1,2">>,
      <<"T_1", "A, B", "1,2">>,
      <<"A, B", "3,4">>,
      <<"P,Q,R", " 7,8">>,
      <<"K,V", "5,6,7ms">> }

RECURSIVE Flatten(_)
Flatten(ss) == IF ss = <<>> THEN <<>> ELSE Head(ss) \o Flatten(Tail(ss))

Files == { Flatten(bs) : bs \in UNION { [1..n -> Blocks] : n \in 0..MaxBlocks } }

\* the rename maps of the callers: none, or one that renames a column
ColNameMaps == { None, Some([k \in {"A"} |-> "Alpha"]) }

InitMulti ==
    /\ pcMulti = "start"
    /\ \/ fileState \in {"missing", "unreadable"} /\ file = <<>>
       \/ fileState = "readable" /\ file \in Files
    /\ col_name_map \in ColNameMaps
    /\ lines = <<>>
    /\ i = 0
    /\ current_title = Some("Metadata")
    /\ tables = <<>>
    /\ stored = <<>>
    /\ visited = <<>>
    /\ IdleSingle
    /\ IdleJoin
    /\ IdleHelper
    /\ IdleCalls
    /\ IdleCheck
    /\ IdleExport
    /\ IdleSpinner
    /\ IdleOutputs

NextMulti ==
    \/ MultiMissing
    \/ MultiRead
    \/ MultiReadError
    \/ MultiScanError
    \/ MultiBlank
    \/ MultiTitle
    \/ MultiTable
    \/ MultiMetadata
    \/ MultiOther
    \/ MultiReturn

SpecMulti == InitMulti /\ [][NextMulti]_vars

\* a call that has begun goes on until it has returned
SpecMultiFair == SpecMulti /\ WF_vars(NextMulti)

(***************************************************************************)
(* _format_process_name, _format_setting_value                             *)
(***************************************************************************)
\* (mutant) the part before the last " ("
RECURSIVE _format_process_name_Last(_)
_format_process_name_Last(val) ==
    IF Len(val) < 2 THEN val
    ELSE IF SubSeq(val, Len(val) - 1, Len(val)) = " (" THEN SubSeq(val, 1, Len(val) - 2)
    ELSE IF \E n \in 1..(Len(val) - 1) : SubSeq(val, n, n + 1) = " ("
    THEN _format_process_name_Last(SubSeq(val, 1, Len(val) - 1))
    ELSE val

\* val.split(" (")[0] if " (" in val, else val
RECURSIVE _format_process_name(_)
_format_process_name(val) ==
    IF Len(val) < 2 THEN val
    ELSE IF SubSeq(val, 1, 2) = " (" THEN ""
    ELSE Head(val) \o _format_process_name(Tail(val))

RECURSIVE FirstWord(_)
FirstWord(s) ==
    IF s = "" \/ Head(s) \in Whitespace THEN "" ELSE Head(s) \o FirstWord(Tail(s))

\* val.split()
RECURSIVE SplitWhitespace(_)
SplitWhitespace(s) ==
    LET t == LStrip(s)
    IN IF t = "" THEN <<>>
       ELSE LET w == FirstWord(t)
            IN <<w>> \o SplitWhitespace(SubSeq(t, Len(w) + 1, Len(t)))

\* "".join(reversed(parts))
RECURSIVE JoinReversed(_)
JoinReversed(parts) ==
    IF parts = <<>> THEN "" ELSE JoinReversed(Tail(parts)) \o Head(parts)

\* (mutant) every byte token is used
_format_setting_value_AllBytes(val) ==
    LET parts == SplitWhitespace(val)
    IN IF Len(parts) < 2 THEN val ELSE "0x" \o JoinReversed(Tail(parts))

_format_setting_value(val) ==
    LET parts == SplitWhitespace(val)
        data_bytes == Tail(parts)
        first4 == IF Len(data_bytes) > 4 THEN SubSeq(data_bytes, 1, 4) ELSE data_bytes
    IN IF Len(parts) < 2 THEN val ELSE "0x" \o JoinReversed(first4)

(***************************************************************************)
(* Numbers: a float is modelled by its value in millionths, an integer;    *)
(* the inputs have at most six decimals and small magnitudes, for which    *)
(* float addition and round(x, 6) are exact to the sixth decimal.          *)
(* The float b * 2^53 + x, for a small integer b and a small x, is written *)
(* b * Huge + x: near a multiple of 2^53 the spacing of the floats is one  *)
(* or more, and an addition rounds to the nearest float, ties to even.     *)
(***************************************************************************)
\* the numeral of 2^53, and the number that stands for 2^53 millionths of
\* a million
HugeNumeral == "9007199254740992"

Huge == 100000000

Million == 1000000

\* the multiple of 2^53 nearest to x
HugePart(x) == (2 * x + Huge) \div (2 * Huge)

Abs(x) == IF x < 0 THEN 0 - x ELSE x

\* the greatest power of two that is at most m, m >= 1
RECURSIVE Pow2Floor(_)
Pow2Floor(m) == IF m < 2 THEN 1 ELSE 2 * Pow2Floor(m \div 2)

\* the distance of two neighbouring floats around b * 2^53 + n, b # 0
Spacing(b, n) ==
    LET m == Abs(b)
        below == (n < 0 /\ b > 0) \/ (n > 0 /\ b < 0)
    IN IF below /\ Pow2Floor(m) = m THEN m ELSE 2 * Pow2Floor(m)

\* the float nearest to the real x, ties to the even mantissa
RoundToFloat(x) ==
    LET b == HugePart(x)
        n == x - b * Huge
        step == Spacing(b, n) * Million
        lower == (n \div step) * step
    IN IF b = 0 \/ n = lower THEN x
       ELSE IF 2 * (n - lower) < step THEN b * Huge + lower
       ELSE IF 2 * (n - lower) > step THEN b * Huge + lower + step
       ELSE IF (lower \div step) % 2 = 0 THEN b * Huge + lower
       ELSE b * Huge + lower + step

\* x + y of two floats
FloatAdd(x, y) == RoundToFloat(x + y)

DigitValue(c) == CHOOSE d \in 0..9 : ToString(d) = c

AllDigits(s) == \A n \in 1..Len(s) : SubSeq(s, n, n) \in Digits

RECURSIVE Number(_)
Number(s) ==
    IF s = "" THEN 0
    ELSE 10 * Number(SubSeq(s, 1, Len(s) - 1)) + DigitValue(SubSeq(s, Len(s), Len(s)))

RECURSIVE Pow10(_)
Pow10(n) == IF n = 0 THEN 1 ELSE 10 * Pow10(n - 1)

\* float(s) for plain decimal numerals: None stands for ValueError
ParseFloat(s) ==
    LET signed == s # "" /\ Head(s) \in {"-", "+"}
        body == IF signed THEN Tail(s) ELSE s
        dots == { n \in 1..Len(body) : SubSeq(body, n, n) = "." }
        dot == IF dots = {} THEN Len(body) + 1 ELSE CHOOSE n \in dots : TRUE
        whole == SubSeq(body, 1, dot - 1)
        frac == SubSeq(body, dot + 1, Len(body))
        frac6 == IF Len(frac) > 6 THEN SubSeq(frac, 1, 6) ELSE frac
        magnitude == IF body = HugeNumeral THEN Huge
                     ELSE Number(whole) * Pow10(6) + Number(frac6) * Pow10(6 - Len(frac6))
    IN IF /\ Cardinality(dots) <= 1
          /\ AllDigits(whole) /\ AllDigits(frac)
          /\ Len(whole) + Len(frac) >= 1
       THEN Some(IF Head(s) = "-" THEN 0 - magnitude ELSE magnitude)
       ELSE None

\* round(total_runtime, 6)
Round6(x) == x

(***************************************************************************)
(* Order of strings (by code point) and of lists of strings                *)
(***************************************************************************)
CodePointOrder ==
    " %()+,-.0123456789ABCDEFGHIJKLMNOPQRSTUVWXYZ_abcdefghijklmnopqrstuvwxyz"

Ord(c) == CHOOSE n \in 1..Len(CodePointOrder) : SubSeq(CodePointOrder, n, n) = c

RECURSIVE StrLess(_, _)
StrLess(a, b) ==
    IF b = "" THEN FALSE
    ELSE IF a = "" THEN TRUE
    ELSE IF Head(a) = Head(b) THEN StrLess(Tail(a), Tail(b))
    ELSE Ord(Head(a)) < Ord(Head(b))

\* a < b for lists of strings
RECURSIVE ListLess(_, _)
ListLess(a, b) ==
    IF b = <<>> THEN FALSE
    ELSE IF a = <<>> THEN TRUE
    ELSE IF Head(a) = Head(b) THEN ListLess(Tail(a), Tail(b))
    ELSE StrLess(Head(a), Head(b))

(***************************************************************************)
(* _parse_single_table_csv                                                 *)
(***************************************************************************)
\* {v: k for k, v in (col_name_map or {}).items()}
InverseColMap(cmap) ==
    IF IsNone(cmap) THEN [v \in {} |-> v]
    ELSE LET m == Unwrap(cmap)
         IN [v \in { m[k] : k \in DOMAIN m } |-> CHOOSE k \in DOMAIN m : m[k] = v]

\* the first line number after line p that holds a row (csv skips empty
\* lines), 0 when there is none
NextRow(f, p) ==
    LET S == { k \in (p + 1)..Len(f) : f[k] # "" }
    IN IF S = {} THEN 0 ELSE CHOOSE k \in S : \A m \in S : k <= m

\* header_map.get(name), header_map = {fn.strip(): fn for fn in fieldnames}
HeaderMapGet(fnames, name) ==
    LET S == { n \in 1..Len(fnames) : Strip(fnames[n]) = name }
    IN IF S = {} THEN None ELSE Some(fnames[LastOf(S)])

\* (mutant) a column the header does not have is kept, under its own name
RECURSIVE GroupKeysGrouping_KeepMissing(_, _, _)
GroupKeysGrouping_KeepMissing(fnames, gb, inv) ==
    IF gb = <<>> THEN <<>>
    ELSE LET col == Head(gb)
             orig_name == MapGet(inv, col)
             actual_key == HeaderMapGet(fnames, orig_name)
             rest == GroupKeysGrouping_KeepMissing(fnames, Tail(gb), inv)
         IN IF ~IsNone(actual_key) /\ Unwrap(actual_key) # ""
            THEN <<<<col, Unwrap(actual_key)>>>> \o rest
            ELSE <<<<col, orig_name>>>> \o rest

\* the grouping branch of "Pre-identify columns to extract"
RECURSIVE GroupKeysGrouping(_, _, _)
GroupKeysGrouping(fnames, gb, inv) ==
    IF gb = <<>> THEN <<>>
    ELSE LET col == Head(gb)
             orig_name == MapGet(inv, col)
             actual_key == HeaderMapGet(fnames, orig_name)
             rest == GroupKeysGrouping(fnames, Tail(gb), inv)
         IN IF ~IsNone(actual_key) /\ Unwrap(actual_key) # ""
            THEN <<<<col, Unwrap(actual_key)>>>> \o rest
            ELSE rest

\* the other branch: every column, under col_name_map.get(orig_name, orig_name)
GroupKeysAll(fnames, m) ==
    [n \in 1..Len(fnames) |-> <<MapGet(m, Strip(fnames[n])), fnames[n]>>]

\* the names of group_by the header does not have
MissingColumns(fnames, gb, inv) ==
    { gb[n] : n \in { k \in 1..Len(gb) :
        LET a == HeaderMapGet(fnames, MapGet(inv, gb[k]))
        IN IsNone(a) \/ Unwrap(a) = "" } }

\* row.get(key) of the DictReader row of a line: the value of the last
\* column named key, None when the row is too short or has no such column
RowGet(fnames, row, key) ==
    LET S == { n \in 1..Len(fnames) : Some(fnames[n]) = key }
    IN IF S = {} \/ LastOf(S) > Len(row) THEN None ELSE Some(row[LastOf(S)])

\* the value of one column, cleaned
CleanValue(inv, target_name, raw) ==
    LET val == Strip(raw)
        orig_name == MapGet(inv, target_name)
        named == IF orig_name = "Process" THEN _format_process_name(val) ELSE val
    IN IF target_name = "SettingValue" THEN _format_setting_value(named) ELSE named

\* cleaned_values of a row: None stands for the AttributeError of None.strip()
CleanedValues(fnames, gkeys, inv, row) ==
    IF \E n \in 1..Len(gkeys) : IsNone(RowGet(fnames, row, Some(gkeys[n][2])))
    THEN None
    ELSE Some([n \in 1..Len(gkeys) |->
                 CleanValue(inv, gkeys[n][1],
                            Unwrap(RowGet(fnames, row, Some(gkeys[n][2]))))])

\* (mutant) without a Runtime column the runtime of a row is 0.0
RuntimeOf_MissingIsZero(fnames, kr, row) ==
    LET v == IF IsNone(kr) THEN None ELSE RowGet(fnames, row, kr)
    IN IF IsNone(kr) THEN Some(0)
       ELSE IF IsNone(v) THEN None
       ELSE LET x == ParseFloat(Strip(Unwrap(v)))
            IN Some(IF IsNone(x) THEN 0 ELSE Unwrap(x))

\* float(runtime_str), 0.0 on ValueError; None when row.get(k_runtime) is
\* no string
RuntimeOf(fnames, kr, row) ==
    LET v == IF IsNone(kr) THEN None ELSE RowGet(fnames, row, kr)
    IN IF IsNone(v) THEN None
       ELSE LET x == ParseFloat(Strip(Unwrap(v)))
            IN Some(IF IsNone(x) THEN 0 ELSE Unwrap(x))

\* summary[key] = summary.get(key, 0.0) + runtime
Accumulate(sm, key, runtime) ==
    DictSet(sm, key, FloatAdd(IF DictHas(sm, key) THEN DictGet(sm, key) ELSE 0, runtime))

\* the body of "for row in reader" in grouping mode: the new summary, or
\* None when it raises
GroupedRow(fnames, gkeys, kr, inv, sm, row) ==
    LET cv == CleanedValues(fnames, gkeys, inv, row)
        rt == RuntimeOf(fnames, kr, row)
    IN IF IsNone(cv) \/ IsNone(rt) THEN None
       ELSE Some(Accumulate(sm, Unwrap(cv), Unwrap(rt)))

\* ... and without grouping: the new result, or None when it raises
PlainRow(fnames, gkeys, inv, res, row) ==
    LET cv == CleanedValues(fnames, gkeys, inv, row)
    IN IF IsNone(cv) THEN None
       ELSE Some(Append(res,
                DictFromPairs(Zip([n \in 1..Len(gkeys) |-> gkeys[n][1]], Unwrap(cv)))))

\* str(x.get(col)) for col in group_by
SortKey(gb, x) ==
    [n \in 1..Len(gb) |-> IF DictHas(x, gb[n]) THEN DictGet(x, gb[n]) ELSE "None"]

\* (mutant) the rows are left in the order of the summary
SortRows_Unsorted(gb, rows) == rows

\* list.sort(key=...): stable
RECURSIVE SortRows(_, _)
SortRows(gb, rows) ==
    IF rows = <<>> THEN <<>>
    ELSE LET sorted == SortRows(gb, SubSeq(rows, 1, Len(rows) - 1))
             x == rows[Len(rows)]
             before == { n \in 1..Len(sorted) :
                           ~ListLess(SortKey(gb, x), SortKey(gb, sorted[n])) }
             at == IF before = {} THEN 0 ELSE LastOf(before)
         IN SubSeq(sorted, 1, at) \o <<x>> \o SubSeq(sorted, at + 1, Len(sorted))

\* "Convert aggregated summary back into a result list", and the sort
GroupedResult(gb, sm) ==
    SortRows(gb,
        [n \in 1..Len(sm) |->
            DictSet(DictFromPairs(Zip(gb, sm[n][1])), "Total runtime", Round6(sm[n][2]))])

\* the warnings logged before the file is opened
WarningsAtStart(gb) ==
    IF gb = Some(<<"Process", "Qos">>) THEN {<<"inflated total">>} ELSE {}

\* (mutant) the rows collected so far are returned
SingleReturnsEmpty_KeepsRows(how) ==
    /\ pcSingle' = "done"
    /\ outcome' = how
    /\ result' = result
    /\ summary' = <<>>
    /\ fieldnames' = None
    /\ group_keys' = <<>>
    /\ k_runtime' = None
    /\ pos' = pos

\* a return through the except clause, or an early one: the result is [],
\* whatever was collected
SingleReturnsEmpty(how) ==
    /\ pcSingle' = "done"
    /\ outcome' = how
    /\ result' = <<>>
    /\ summary' = <<>>
    /\ fieldnames' = None
    /\ group_keys' = <<>>
    /\ k_runtime' = None
    /\ pos' = pos

\* the file does not exist: return []
SingleMissing ==
    /\ pcSingle = "start"
    /\ fileState = "missing"
    /\ SingleReturnsEmpty("missing")
    /\ UNCHANGED <<varsCall, group_by, log, othersSingle>>

\* open raises: the except clause returns []
SingleOpenError ==
    /\ pcSingle = "start"
    /\ fileState = "unreadable"
    /\ log' = log \cup WarningsAtStart(group_by)
    /\ SingleReturnsEmpty("raised")
    /\ UNCHANGED <<varsCall, group_by, othersSingle>>

\* the file has no header line: "if not reader.fieldnames: return []"
SingleNoHeader ==
    /\ pcSingle = "start"
    /\ fileState = "readable"
    /\ NextRow(file, 0) = 0
    /\ log' = log \cup WarningsAtStart(group_by)
    /\ SingleReturnsEmpty("returned")
    /\ UNCHANGED <<varsCall, group_by, othersSingle>>

\* the header is read; group_keys and k_runtime are set
SingleHeader ==
    /\ pcSingle = "start"
    /\ fileState = "readable"
    /\ NextRow(file, 0) # 0
    /\ ~(IsNone(group_by) /\ IsNone(col_name_map))
    /\ LET fnames == SplitComma(file[NextRow(file, 0)])
           inv == InverseColMap(col_name_map)
       IN /\ fieldnames' = Some(fnames)
          /\ group_keys' = IF IsNone(group_by)
                           THEN GroupKeysAll(fnames, Unwrap(col_name_map))
                           ELSE GroupKeysGrouping(fnames, Unwrap(group_by), inv)
          /\ k_runtime' = IF IsNone(group_by) THEN None
                          ELSE HeaderMapGet(fnames, MapGet(inv, "Runtime"))
          /\ log' = log \cup WarningsAtStart(group_by)
                        \cup (IF IsNone(group_by) THEN {}
                              ELSE { <<"not found", c>> :
                                       c \in MissingColumns(fnames, Unwrap(group_by), inv) })
    /\ pos' = NextRow(file, 0)
    /\ pcSingle' = "rows"
    /\ UNCHANGED <<varsCall, group_by, summary, result, outcome, othersSingle>>

\* group_by is None and col_name_map is None: col_name_map.get raises
\* AttributeError, the except clause returns []
SingleHeaderRaises ==
    /\ pcSingle = "start"
    /\ fileState = "readable"
    /\ NextRow(file, 0) # 0
    /\ IsNone(group_by) /\ IsNone(col_name_map)
    /\ log' = log \cup WarningsAtStart(group_by)
    /\ SingleReturnsEmpty("raised")
    /\ UNCHANGED <<varsCall, group_by, othersSingle>>

\* what the body of the row loop makes of the next row: None when it raises
RowStep ==
    LET row == SplitComma(file[NextRow(file, pos)])
        inv == InverseColMap(col_name_map)
    IN IF IsNone(group_by)
       THEN PlainRow(Unwrap(fieldnames), group_keys, inv, result, row)
       ELSE GroupedRow(Unwrap(fieldnames), group_keys, k_runtime, inv, summary, row)

\* one row is processed
SingleRow ==
    /\ pcSingle = "rows"
    /\ NextRow(file, pos) # 0
    /\ ~IsNone(RowStep)
    /\ IF IsNone(group_by)
       THEN result' = Unwrap(RowStep) /\ UNCHANGED summary
       ELSE summary' = Unwrap(RowStep) /\ UNCHANGED result
    /\ pos' = NextRow(file, pos)
    /\ UNCHANGED <<varsCall, pcSingle, group_by, fieldnames, group_keys, k_runtime,
                   log, outcome, othersSingle>>

\* the processing of a row raises (None.strip()): the except clause
\* returns []
SingleRowRaises ==
    /\ pcSingle = "rows"
    /\ NextRow(file, pos) # 0
    /\ IsNone(RowStep)
    /\ SingleReturnsEmpty("raised")
    /\ UNCHANGED <<varsCall, group_by, log, othersSingle>>

\* reading the next line raises (an I/O or decoding error): the except
\* clause returns []
SingleReadError ==
    /\ pcSingle = "rows"
    /\ SingleReturnsEmpty("read error")
    /\ UNCHANGED <<varsCall, group_by, log, othersSingle>>

\* the end of the file: the result is built and returned
SingleReturn ==
    /\ pcSingle = "rows"
    /\ NextRow(file, pos) = 0
    /\ result' = IF IsNone(group_by) THEN result
                 ELSE result \o GroupedResult(Unwrap(group_by), summary)
    /\ pcSingle' = "done"
    /\ outcome' = "returned"
    /\ UNCHANGED <<varsCall, group_by, fieldnames, group_keys, k_runtime, pos,
                   summary, log, othersSingle>>

\* _parse_multi_table_csv is not running
IdleMulti ==
    /\ pcMulti = "idle"
    /\ lines = <<>>
    /\ i = 0
    /\ current_title = None
    /\ tables = <<>>
    /\ stored = <<>>
    /\ visited = <<>>

\* ---- the inputs of _parse_single_table_csv ----
MaxRows == 3

Headers == { "Process, CPU,Runtime", "Process,CPU" }

RowLines == { "a (1),1,1", "a (2), 1,2.5", "a,1.0,x", "b,1", "b,1,2,9", "" }

\* rows whose Runtime values do not add up exactly
HugeRowLines == { "a,1,9007199254740992", "a,1,-9007199254740992", "a (1),1,1" }

SingleFiles ==
    {<<>>} \cup { <<h>> \o rs : h \in Headers,
                               rs \in UNION { [1..n -> RowLines] : n \in 0..MaxRows }
                                        \cup UNION { [1..n -> HugeRowLines] : n \in 0..MaxRows } }

GroupBys ==
    { None, Some(<<"Process", "CPU">>), Some(<<"Process", "Qos">>),
      Some(<<"Nope", "Process">>), Some(<<"Core">>), Some(<<"process", " CPU">>),
      Some(<<"Qos", "Process">>) }

SingleColNameMaps ==
    { None, Some([k \in {} |-> k]), Some([k \in {"CPU"} |-> "Core"]) }

InitSingle ==
    /\ pcSingle = "start"
    /\ \/ fileState \in {"missing", "unreadable"} /\ file = <<>>
       \/ fileState = "readable" /\ file \in SingleFiles
    /\ col_name_map \in SingleColNameMaps
    /\ group_by \in GroupBys
    /\ fieldnames = None
    /\ group_keys = <<>>
    /\ k_runtime = None
    /\ pos = 0
    /\ summary = <<>>
    /\ result = <<>>
    /\ log = {}
    /\ outcome = ""
    /\ IdleMulti
    /\ IdleJoin
    /\ IdleHelper
    /\ IdleCalls
    /\ IdleCheck
    /\ IdleExport
    /\ IdleSpinner
    /\ IdleOutputs

NextSingle ==
    \/ SingleMissing
    \/ SingleOpenError
    \/ SingleNoHeader
    \/ SingleHeader
    \/ SingleHeaderRaises
    \/ SingleRow
    \/ SingleRowRaises
    \/ SingleReadError
    \/ SingleReturn

SpecSingle == InitSingle /\ [][NextSingle]_vars

(***************************************************************************)
(* export_ppm_data: the join of the two parsed tables on ProfileId         *)
(***************************************************************************)
\* d.get(k): None or the value
DictGetOpt(d, k) == IF DictHas(d, k) THEN Some(DictGet(d, k)) ELSE None

\* (mutant) {**b, **a}: the values of a win
MergeDicts_LeftWins(a, b) ==
    LET keep == SelectSeq(b, LAMBDA pr : ~DictHas(a, pr[1]))
    IN a \o keep

\* {**a, **b}
RECURSIVE MergeDicts(_, _)
MergeDicts(a, b) ==
    IF b = <<>> THEN a
    ELSE MergeDicts(DictSet(a, Head(b)[1], Head(b)[2]), Tail(b))

\* {p.get('ProfileId'): p for p in rows}
RECURSIVE ProfilesMap(_)
ProfilesMap(rows) ==
    IF rows = <<>> THEN <<>>
    ELSE LET p == rows[Len(rows)]
         IN DictSet(ProfilesMap(SubSeq(rows, 1, Len(rows) - 1)),
                    DictGetOpt(p, "ProfileId"), p)

col_to_remove ==
    { "Event Name", "Cpu", "ThreadId", "ProfilePriority", "ProfileFlags",
      "ProfileGuid", "ProfileActiveCount", "ProfileMaxActiveDurationInUs",
      "ProfileMinActiveDurationInUs", "ProfileTotalActiveDurationInUs", "Count",
      "Time (s)", "SettingGuid", "SettingValueSize" }

\* {k: v for k, v in d.items() if k not in col_to_remove}
RemoveColumns(d) == SelectSeq(d, LAMBDA pr : pr[1] \notin col_to_remove)

MaxLeft == 2

MaxRight == 2

\* rows the parse of the profilerundown export can return
LeftRows ==
    { <<<<"Event Name", "L">>, <<"ProfileName", "p0">>, <<"ProfileId", "0">>>>,
      <<<<"Event Name", "L">>, <<"ProfileName", "q0">>, <<"ProfileId", "0">>,
        <<"ProfileGuid", "g">>>>,
      <<<<"Event Name", "L">>, <<"ProfileName", "p1">>, <<"ProfileId", "1">>>>,
      <<<<"Event Name", "L">>, <<"ProfileName", "p">>>> }

\* rows the parse of the profilesettingrundown export can return
RightRows ==
    { <<<<"Event Name", "R">>, <<"ProfileId", "0">>, <<"SettingName", "s">>>>,
      <<<<"Event Name", "R">>, <<"ProfileId", "1">>, <<"SettingName", "t">>,
        <<"SettingGuid", "h">>>>,
      <<<<"Event Name", "R">>, <<"ProfileId", "2">>, <<"SettingName", "s">>>>,
      <<<<"Event Name", "R">>, <<"SettingName", "s">>>> }

\* the lists of at most n rows of S
Tables(S, n) == UNION { [1..m -> S] : m \in 0..n }

\* the two exports are parsed into the two tables
JoinParse ==
    /\ pcJoin = "start"
    /\ \E left \in Tables(LeftRows, MaxLeft), right \in Tables(RightRows, MaxRight) :
          /\ profilerundown_data' = left
          /\ profilesettingrundown_data' = right
    /\ pcJoin' = "map"
    /\ UNCHANGED <<profiles_map, settingIndex, data, othersJoin>>

\* profiles_map = {...}
JoinMap ==
    /\ pcJoin = "map"
    /\ profiles_map' = ProfilesMap(profilerundown_data)
    /\ pcJoin' = "loop"
    /\ UNCHANGED <<profilerundown_data, profilesettingrundown_data, settingIndex,
                   data, othersJoin>>

\* one iteration of "for setting in profilesettingrundown_data"
JoinSetting ==
    /\ pcJoin = "loop"
    /\ settingIndex < Len(profilesettingrundown_data)
    /\ LET setting == profilesettingrundown_data[settingIndex + 1]
           profile_id == DictGetOpt(setting, "ProfileId")
       IN data' = IF DictHas(profiles_map, profile_id)
                  THEN Append(data, MergeDicts(DictGet(profiles_map, profile_id), setting))
                  ELSE Append(data, setting)
    /\ settingIndex' = settingIndex + 1
    /\ UNCHANGED <<pcJoin, profilerundown_data, profilesettingrundown_data,
                   profiles_map, othersJoin>>

\* the loop is over
JoinEnd ==
    /\ pcJoin = "loop"
    /\ settingIndex = Len(profilesettingrundown_data)
    /\ pcJoin' = "filter"
    /\ UNCHANGED <<profilerundown_data, profilesettingrundown_data, profiles_map,
                   settingIndex, data, othersJoin>>

\* the columns of col_to_remove are removed and data is returned
JoinFilter ==
    /\ pcJoin = "filter"
    /\ data' = [k \in 1..Len(data) |-> RemoveColumns(data[k])]
    /\ pcJoin' = "done"
    /\ UNCHANGED <<profilerundown_data, profilesettingrundown_data, profiles_map,
                   settingIndex, othersJoin>>

InitJoin ==
    /\ pcJoin = "start"
    /\ profilerundown_data = <<>>
    /\ profilesettingrundown_data = <<>>
    /\ profiles_map = <<>>
    /\ settingIndex = 0
    /\ data = <<>>
    /\ fileState = "missing"
    /\ file = <<>>
    /\ col_name_map = None
    /\ IdleMulti
    /\ IdleSingle
    /\ IdleHelper
    /\ IdleCalls
    /\ IdleCheck
    /\ IdleExport
    /\ IdleSpinner
    /\ IdleOutputs

NextJoin ==
    \/ JoinParse
    \/ JoinMap
    \/ JoinSetting
    \/ JoinEnd
    \/ JoinFilter

SpecJoin == InitJoin /\ [][NextJoin]_vars

(***************************************************************************)
(* Calls of _feels_like_header, _format_setting_value and                  *)
(* _format_process_name on their own                                       *)
(***************************************************************************)
MaxFields == 2

MaxCalls == 2

FieldValues ==
    { "", "Name", "Count", "3.4%", "12ms", "12MS", "-5", "1.2.3", ".", "5Min",
      "ms", "3x", "-", "1 s", "--1" }

SettingValues ==
    { "", "abc", "00000004", "00000004 e8 03 00 00", "00000008 e8 03 00 00",
      "00000002 e8 03", " 00000004  e8 03\t00 00 ", "0000000a 01 02 03 04 05 06 07 08 09 0a",
      "x y" }

ProcessValues ==
    { "", "a", "chrome.exe (1234)", "a (1) (2)", " (x", "a(1)", "a ( (b", "(", " " }

\* _feels_like_header(fields) returns
FeelsLikeHeaderCall ==
    /\ pcHelper = "call"
    /\ helper = "_feels_like_header"
    /\ returns' = Append(returns, _feels_like_header(argFields))
    /\ pcHelper' = "done"
    /\ UNCHANGED <<helper, argFields, argVal, othersHelper>>

\* the value passed to a formatter: the argument, or what the formatter
\* returned last
PassedVal == IF returns = <<>> THEN argVal ELSE returns[Len(returns)]

\* _format_setting_value(val) returns
FormatSettingValueCall ==
    /\ pcHelper = "call"
    /\ helper = "_format_setting_value"
    /\ returns' = Append(returns, _format_setting_value(PassedVal))
    /\ pcHelper' = "done"
    /\ UNCHANGED <<helper, argFields, argVal, othersHelper>>

\* _format_process_name(val) returns
FormatProcessNameCall ==
    /\ pcHelper = "call"
    /\ helper = "_format_process_name"
    /\ returns' = Append(returns, _format_process_name(PassedVal))
    /\ pcHelper' = "done"
    /\ UNCHANGED <<helper, argFields, argVal, othersHelper>>

\* the caller passes the value a formatter returned to the formatter again
FormatAgain ==
    /\ pcHelper = "done"
    /\ helper \in {"_format_process_name", "_format_setting_value"}
    /\ Len(returns) < MaxCalls
    /\ pcHelper' = "call"
    /\ UNCHANGED <<helper, argFields, argVal, returns, othersHelper>>

InitHelper ==
    /\ pcHelper = "call"
    /\ \/ /\ helper = "_feels_like_header"
          /\ argFields \in UNION { [1..n -> FieldValues] : n \in 0..MaxFields }
          /\ argVal = ""
       \/ /\ helper = "_format_setting_value"
          /\ argFields = <<>>
          /\ argVal \in SettingValues
       \/ /\ helper = "_format_process_name"
          /\ argFields = <<>>
          /\ argVal \in ProcessValues
    /\ returns = <<>>
    /\ fileState = "missing"
    /\ file = <<>>
    /\ col_name_map = None
    /\ IdleMulti
    /\ IdleSingle
    /\ IdleJoin
    /\ IdleCalls
    /\ IdleCheck
    /\ IdleExport
    /\ IdleSpinner
    /\ IdleOutputs

NextHelper ==
    \/ FeelsLikeHeaderCall
    \/ FormatSettingValueCall
    \/ FormatProcessNameCall
    \/ FormatAgain

SpecHelper == InitHelper /\ [][NextHelper]_vars

(***************************************************************************)
(* Calls of _parse_single_table_csv and _parse_multi_table_csv made side   *)
(* by side and one after the other.  A call owns its arguments and its     *)
(* locals, its frame; the one object of the module that the calls of the   *)
(* parsers have in common is the default list of group_by.  The files are  *)
(* readable and no read fails.                                             *)
(***************************************************************************)
\* two callers, each with an input of its own
Callers == {1, 2}

\* the frame of a call that has not begun: "tables = {}" and "result = []"
\* are one field, result
StartFrame(fn, f, omitted, gb, cmap) ==
    [fn |-> fn, pc |-> "start", file |-> f, omitted |-> omitted, group_by |-> gb,
     col_name_map |-> cmap, fieldnames |-> None, group_keys |-> <<>>,
     k_runtime |-> None, pos |-> 0, summary |-> <<>>, lines |-> <<>>, i |-> 0,
     current_title |-> None, result |-> <<>>, overlapped |-> FALSE]

\* the list the name group_by is bound to in a call
GroupByOf(fr, dflt) == IF fr.omitted THEN Some(dflt) ELSE fr.group_by

\* is_grouping = group_by is not None
IsGrouping(fr) == fr.omitted \/ ~IsNone(fr.group_by)

\* a return of _parse_single_table_csv with []
FrameReturnsEmpty(fr) == [fr EXCEPT !.pc = "done", !.result = <<>>]

\* _parse_single_table_csv up to the row loop
HeaderStep(fr, dflt) ==
    LET gb == GroupByOf(fr, dflt)
        h == NextRow(fr.file, 0)
        fnames == SplitComma(fr.file[h])
        inv == InverseColMap(fr.col_name_map)
    IN IF h = 0 THEN FrameReturnsEmpty(fr)
       ELSE IF IsNone(gb) /\ IsNone(fr.col_name_map) THEN FrameReturnsEmpty(fr)
       ELSE [fr EXCEPT
               !.fieldnames = Some(fnames),
               !.group_keys = IF IsNone(gb)
                              THEN GroupKeysAll(fnames, Unwrap(fr.col_name_map))
                              ELSE GroupKeysGrouping(fnames, Unwrap(gb), inv),
               !.k_runtime = IF IsNone(gb) THEN None
                             ELSE HeaderMapGet(fnames, MapGet(inv, "Runtime")),
               !.pos = h,
               !.pc = "rows"]

\* one pass of "for row in reader"
FrameRowStep(fr) ==
    LET p == NextRow(fr.file, fr.pos)
        row == SplitComma(fr.file[p])
        inv == InverseColMap(fr.col_name_map)
        next == IF IsGrouping(fr)
                THEN GroupedRow(Unwrap(fr.fieldnames), fr.group_keys, fr.k_runtime,
                                inv, fr.summary, row)
                ELSE PlainRow(Unwrap(fr.fieldnames), fr.group_keys, inv, fr.result, row)
    IN IF IsNone(next) THEN FrameReturnsEmpty(fr)
       ELSE IF IsGrouping(fr) THEN [fr EXCEPT !.summary = Unwrap(next), !.pos = p]
       ELSE [fr EXCEPT !.result = Unwrap(next), !.pos = p]

\* the end of the file: the summary is converted with the list group_by is
\* bound to, and the result is returned
ReturnStep(fr, dflt) ==
    [fr EXCEPT
       !.result = IF IsGrouping(fr)
                  THEN fr.result \o GroupedResult(Unwrap(GroupByOf(fr, dflt)), fr.summary)
                  ELSE fr.result,
       !.pc = "done"]

\* _parse_multi_table_csv up to the loop
ReadStep(fr) ==
    [fr EXCEPT
       !.current_title = Some("Metadata"),
       !.lines = [n \in 1..Len(fr.file) |-> Strip(fr.file[n])],
       !.i = 0,
       !.pc = "scan"]

\* one pass of "while i < len(lines)"
ScanStep(fr) ==
    LET line == LineAt(fr.lines, fr.i)
        fields == Fields(line)
        t == TableAt(fr.lines, fr.i)
        title == TitleOr(fr.current_title)
        unique_title == UniqueTitle(fr.result, title, title, 1)
        created == IF DictHas(fr.result, "Metadata") THEN fr.result
                   ELSE DictSet(fr.result, "Metadata", <<>>)
        record == <<<<"Property", fields[1]>>, <<"Value", fields[2]>>>>
    IN IF line = "" THEN [fr EXCEPT !.i = fr.i + 1]
       ELSE IF ~HasComma(line)
       THEN [fr EXCEPT !.current_title = Some(line), !.i = fr.i + 1]
       ELSE IF t.rows # <<>>
       THEN [fr EXCEPT
               !.result = DictSet(fr.result, unique_title,
                                  MapRows(fr.col_name_map, t.rows)),
               !.i = t.j,
               !.current_title = None]
       ELSE IF Len(fields) = 2
       THEN [fr EXCEPT
               !.result = DictSet(created, "Metadata",
                                  Append(DictGet(created, "Metadata"), record)),
               !.i = fr.i + 1]
       ELSE [fr EXCEPT !.i = fr.i + 1]

\* the next step of a call that has not returned
FrameStep(fr, dflt) ==
    IF fr.fn = "single"
    THEN IF fr.pc = "start" THEN HeaderStep(fr, dflt)
         ELSE IF NextRow(fr.file, fr.pos) # 0 THEN FrameRowStep(fr)
         ELSE ReturnStep(fr, dflt)
    ELSE IF fr.pc = "start" THEN ReadStep(fr)
         ELSE IF fr.i < Len(fr.lines) THEN ScanStep(fr)
         ELSE [fr EXCEPT !.pc = "done"]

\* another caller is in the middle of its call
Overlaps(c) == \E d \in Callers \ {c} : frames[d].pc \in {"rows", "scan"}

\* the call of caller c takes the step that leads to frame fr
Stepped(c, fr) ==
    frames' = [frames EXCEPT
                 ![c] = [fr EXCEPT !.overlapped = frames[c].overlapped \/ Overlaps(c)]]

\* (mutant) the columns the header does not have are removed from the list
\* group_by is bound to
CallHeader_PrunesDefault(c) ==
    /\ frames[c].fn = "single"
    /\ frames[c].pc = "start"
    /\ Stepped(c, HeaderStep(frames[c], default_group_by))
    /\ LET after == HeaderStep(frames[c], default_group_by)
       IN default_group_by' =
            IF frames[c].omitted /\ after.pc = "rows"
            THEN [n \in 1..Len(after.group_keys) |-> after.group_keys[n][1]]
            ELSE default_group_by
    /\ UNCHANGED <<returned, othersCalls>>

\* caller c: _parse_single_table_csv reads the header
CallHeader(c) ==
    /\ frames[c].fn = "single"
    /\ frames[c].pc = "start"
    /\ Stepped(c, HeaderStep(frames[c], default_group_by))
    /\ UNCHANGED <<default_group_by, returned, othersCalls>>

\* caller c: _parse_single_table_csv processes a row
CallRow(c) ==
    /\ frames[c].fn = "single"
    /\ frames[c].pc = "rows"
    /\ NextRow(frames[c].file, frames[c].pos) # 0
    /\ Stepped(c, FrameRowStep(frames[c]))
    /\ UNCHANGED <<default_group_by, returned, othersCalls>>

\* caller c: _parse_single_table_csv returns its result
CallReturn(c) ==
    /\ frames[c].fn = "single"
    /\ frames[c].pc = "rows"
    /\ NextRow(frames[c].file, frames[c].pos) = 0
    /\ Stepped(c, ReturnStep(frames[c], default_group_by))
    /\ UNCHANGED <<default_group_by, returned, othersCalls>>

\* caller c: _parse_multi_table_csv reads the lines
CallRead(c) ==
    /\ frames[c].fn = "multi"
    /\ frames[c].pc = "start"
    /\ Stepped(c, ReadStep(frames[c]))
    /\ UNCHANGED <<default_group_by, returned, othersCalls>>

\* caller c: _parse_multi_table_csv handles the line at i
CallScan(c) ==
    /\ frames[c].fn = "multi"
    /\ frames[c].pc = "scan"
    /\ frames[c].i < Len(frames[c].lines)
    /\ Stepped(c, ScanStep(frames[c]))
    /\ UNCHANGED <<default_group_by, returned, othersCalls>>

\* caller c: _parse_multi_table_csv returns tables
CallReturnTables(c) ==
    /\ frames[c].fn = "multi"
    /\ frames[c].pc = "scan"
    /\ frames[c].i >= Len(frames[c].lines)
    /\ Stepped(c, [frames[c] EXCEPT !.pc = "done"])
    /\ UNCHANGED <<default_group_by, returned, othersCalls>>

\* caller c makes the same call again: new locals, the same arguments
CallAgain(c) ==
    /\ frames[c].pc = "done"
    /\ Len(returned[c]) + 1 < MaxCalls
    /\ returned' = [returned EXCEPT ![c] = Append(returned[c], frames[c].result)]
    /\ frames' = [frames EXCEPT
                    ![c] = StartFrame(frames[c].fn, frames[c].file, frames[c].omitted,
                                      frames[c].group_by, frames[c].col_name_map)]
    /\ UNCHANGED <<default_group_by, othersCalls>>

\* ---- the calls the callers make ----
CallSingleFiles ==
    { <<"Process, CPU,Runtime", "a (1),1,1", "a (2), 1,2.5">>,
      <<"Process,Runtime", "b,2", "a,1">>,
      <<"Process, CPU,Runtime", "a,1,1", "b,1">> }

CallMultiFiles ==
    { <<"T", "A, B", "1,2", "", "T", "A, B", "3,4">>,
      <<"K,V", "x", "P,Q,R", " 7,8">> }

\* group_by omitted, or group_by=None with a col_name_map
CallFrames ==
    { StartFrame("single", f, TRUE, None, None) : f \in CallSingleFiles }
    \cup { StartFrame("single", f, FALSE, None, Some([k \in {"CPU"} |-> "Core"])) :
             f \in CallSingleFiles }
    \cup { StartFrame("multi", f, FALSE, None, None) : f \in CallMultiFiles }

InitCalls ==
    /\ default_group_by = DefaultGroupBy
    /\ frames \in [Callers -> CallFrames]
    /\ returned = [c \in Callers |-> <<>>]
    /\ fileState = "readable"
    /\ file = <<>>
    /\ col_name_map = None
    /\ IdleMulti
    /\ IdleSingle
    /\ IdleJoin
    /\ IdleHelper
    /\ IdleCheck
    /\ IdleExport
    /\ IdleSpinner
    /\ IdleOutputs

NextCalls ==
    \E c \in Callers :
        \/ CallHeader(c)
        \/ CallRow(c)
        \/ CallReturn(c)
        \/ CallRead(c)
        \/ CallScan(c)
        \/ CallReturnTables(c)
        \/ CallAgain(c)

SpecCalls == InitCalls /\ [][NextCalls]_vars

(***************************************************************************)
(* check_required_tools                                                    *)
(***************************************************************************)
\* shutil.which("wpr"): the path of the executable, None when PATH has none
Which(on_path) == IF on_path THEN Some("wpr") ELSE None

\* _check_wpr: shutil.which is called and its value is dropped; the except
\* clause is for a call that raises, which shutil.which does not do
_check_wpr(on_path) ==
    LET found == Which(on_path) IN TRUE

\* the toolkit folders of Windows Kits 10 and 11
common_paths == <<"10", "11">>

\* _check_wpaexporter: wpaexporter.exe exists in one of common_paths
_check_wpaexporter(exes) == \E n \in 1..Len(common_paths) : common_paths[n] \in exes

\* max(version_folders, key=lambda x: x[1:])
LatestVersionFolder(folders) ==
    CHOOSE f \in folders : \A g \in folders : ~StrLess(Tail(f), Tail(g))

\* _get_etlwatch_exe_path: the path of ETLWatch.exe, "" when it is not found
_get_etlwatch_exe_path(root, folders, exes) ==
    IF ~root THEN ""
    ELSE IF folders = {} THEN ""
    ELSE IF LatestVersionFolder(folders) \notin exes THEN ""
    ELSE "etlwatch/" \o LatestVersionFolder(folders) \o "/ETLWatch.exe"

\* _check_etlwatch
_check_etlwatch(root, folders, exes) == _get_etlwatch_exe_path(root, folders, exes) # ""

\* check_wpr = _check_wpr()
CheckWpr ==
    /\ pcCheck = "start"
    /\ check_wpr' = Some(_check_wpr(wpr_on_path))
    /\ pcCheck' = "wpr"
    /\ UNCHANGED <<wpr_on_path, toolkit_exes, etlwatch_root, version_folders,
                   etlwatch_exes, check_wpaexporter, check_etlwatch, checked,
                   othersCheck>>

\* check_wpaexporter = _check_wpaexporter()
CheckWpaexporter ==
    /\ pcCheck = "wpr"
    /\ check_wpaexporter' = Some(_check_wpaexporter(toolkit_exes))
    /\ pcCheck' = "wpaexporter"
    /\ UNCHANGED <<wpr_on_path, toolkit_exes, etlwatch_root, version_folders,
                   etlwatch_exes, check_wpr, check_etlwatch, checked, othersCheck>>

\* check_etlwatch = _check_etlwatch()
CheckEtlwatch ==
    /\ pcCheck = "wpaexporter"
    /\ check_etlwatch' =
          Some(_check_etlwatch(etlwatch_root, version_folders, etlwatch_exes))
    /\ pcCheck' = "etlwatch"
    /\ UNCHANGED <<wpr_on_path, toolkit_exes, etlwatch_root, version_folders,
                   etlwatch_exes, check_wpr, check_wpaexporter, checked, othersCheck>>

\* return check_wpr and check_wpaexporter and check_etlwatch
CheckReturn ==
    /\ pcCheck = "etlwatch"
    /\ checked' = Some(Unwrap(check_wpr) /\ Unwrap(check_wpaexporter)
                         /\ Unwrap(check_etlwatch))
    /\ pcCheck' = "done"
    /\ UNCHANGED <<wpr_on_path, toolkit_exes, etlwatch_root, version_folders,
                   etlwatch_exes, check_wpr, check_wpaexporter, check_etlwatch,
                   othersCheck>>

\* ---- the machines check_required_tools runs on ----
VersionFolderNames == {"v1", "v2", "v10"}

InitCheck ==
    /\ pcCheck = "start"
    /\ wpr_on_path \in BOOLEAN
    /\ toolkit_exes \in SUBSET { common_paths[n] : n \in 1..Len(common_paths) }
    /\ etlwatch_root \in BOOLEAN
    /\ version_folders \in SUBSET VersionFolderNames
    /\ etlwatch_exes \in SUBSET version_folders
    /\ etlwatch_root \/ version_folders = {}
    /\ check_wpr = None
    /\ check_wpaexporter = None
    /\ check_etlwatch = None
    /\ checked = None
    /\ fileState = "missing"
    /\ file = <<>>
    /\ col_name_map = None
    /\ IdleMulti
    /\ IdleSingle
    /\ IdleJoin
    /\ IdleHelper
    /\ IdleCalls
    /\ IdleExport
    /\ IdleSpinner
    /\ IdleOutputs

NextCheck ==
    \/ CheckWpr
    \/ CheckWpaexporter
    \/ CheckEtlwatch
    \/ CheckReturn

SpecCheck == InitCheck /\ [][NextCheck]_vars

(***************************************************************************)
(* export_processes_data                                                   *)
(***************************************************************************)
\* sub in s
Contains(sub, s) ==
    \E n \in 1..(Len(s) - Len(sub) + 1) : SubSeq(s, n, n + Len(sub) - 1) = sub

\* next((v for k, v in data.items() if sub in k), [])
FirstTable(tbls, sub) ==
    LET at == { n \in 1..Len(tbls) : Contains(sub, tbls[n][1]) }
    IN IF at = {} THEN <<>>
       ELSE tbls[CHOOSE n \in at : \A m \in at : n <= m][2]

\* the three tables taken from data
SelectTables(tbls) ==
    [clock_interrupts_table |-> FirstTable(tbls, "Clock Interrupts"),
     process_lifetime_table |-> FirstTable(tbls, "Process Runtime by QOS"),
     cpu_lifetime_table |-> FirstTable(tbls, "Logical Processor (LP) Runtime by QOS")]

\* a returned value: one list of rows, or a tuple of three
OneList(rows) == [shape |-> "list", values |-> <<rows>>]

ThreeLists(a, b, c) == [shape |-> "tuple", values |-> <<a, b, c>>]

\* the value returned when the export fails or the stats file is missing
ReturnOnFailure(name) ==
    IF name = "all" THEN ThreeLists(<<>>, <<>>, <<>>) ELSE OneList(<<>>)

\* "Filter/Select which table to return"
ReturnOnSuccess(name, sel) ==
    LET requested_table == LowerCase(name)
    IN IF requested_table = "clock interrupts" THEN OneList(sel.clock_interrupts_table)
       ELSE IF requested_table = "process lifetime"
       THEN OneList(sel.process_lifetime_table)
       ELSE IF requested_table = "cpu lifetime" THEN OneList(sel.cpu_lifetime_table)
       ELSE ThreeLists(sel.clock_interrupts_table, sel.process_lifetime_table,
                       sel.cpu_lifetime_table)

\* _etlwatch_etl_to_csv returns False
ExportFails ==
    /\ pcExport = "start"
    /\ ~export_ok
    /\ exported' = Some(ReturnOnFailure(table_name))
    /\ pcExport' = "done"
    /\ UNCHANGED <<table_name, export_ok, stats_exists, stats_report, selected,
                   othersExport>>

\* _etlwatch_etl_to_csv returns True
ExportRuns ==
    /\ pcExport = "start"
    /\ export_ok
    /\ pcExport' = "stats"
    /\ UNCHANGED <<table_name, export_ok, stats_exists, stats_report, selected,
                   exported, othersExport>>

\* the stats file does not exist
ExportNoStats ==
    /\ pcExport = "stats"
    /\ ~stats_exists
    /\ exported' = Some(ReturnOnFailure(table_name))
    /\ pcExport' = "done"
    /\ UNCHANGED <<table_name, export_ok, stats_exists, stats_report, selected,
                   othersExport>>

\* data = _parse_multi_table_csv(stats_file, ...), and the three tables
ExportParse ==
    /\ pcExport = "stats"
    /\ stats_exists
    /\ selected' = Some(SelectTables(stats_report))
    /\ pcExport' = "select"
    /\ UNCHANGED <<table_name, export_ok, stats_exists, stats_report, exported,
                   othersExport>>

\* the requested table, or all three, is returned
ExportReturn ==
    /\ pcExport = "select"
    /\ exported' = Some(ReturnOnSuccess(table_name, Unwrap(selected)))
    /\ pcExport' = "done"
    /\ UNCHANGED <<table_name, export_ok, stats_exists, stats_report, selected,
                   othersExport>>

\* ---- the calls of export_processes_data ----
TableNames ==
    { "all", "ALL", "Clock interrupts", "clock interrupts", "Process lifetime",
      "CPU lifetime", "Memory" }

\* the titled tables of a stats report, with one row or none
StatsTables ==
    { <<"Clock Interrupts", <<<<<<"CPU", "0">>, <<"Number of Clock Interrupts", "7">>>>>>>>,
      <<"Process Runtime by QOS (ms)", <<<<<<"Process", "a">>, <<"High QoS (ms)", "1">>>>>>>>,
      <<"Logical Processor (LP) Runtime by QOS", <<<<<<"LP", "0">>, <<"Low QoS (ms)", "2">>>>>>>>,
      <<"Metadata", <<<<<<"Property", "K">>, <<"Value", "V">>>>>>>> }

\* what the parser makes of the stats report: a dict of some of them
StatsReports ==
    { r \in UNION { [1..n -> StatsTables] : n \in 0..2 } :
        \A a, b \in 1..Len(r) : a # b => r[a][1] # r[b][1] }

InitExport ==
    /\ pcExport = "start"
    /\ table_name \in TableNames
    /\ export_ok \in BOOLEAN
    /\ stats_exists \in BOOLEAN
    /\ stats_report \in StatsReports
    /\ selected = None
    /\ exported = None
    /\ fileState = "missing"
    /\ file = <<>>
    /\ col_name_map = None
    /\ IdleMulti
    /\ IdleSingle
    /\ IdleJoin
    /\ IdleHelper
    /\ IdleCalls
    /\ IdleCheck
    /\ IdleSpinner
    /\ IdleOutputs

NextExport ==
    \/ ExportFails
    \/ ExportRuns
    \/ ExportNoStats
    \/ ExportParse
    \/ ExportReturn

SpecExport == InitExport /\ [][NextExport]_vars

(***************************************************************************)
(* LogSpinner: the caller enters the context, makes the wrapped call and   *)
(* leaves the context, while the thread started by __enter__ runs spin     *)
(***************************************************************************)
\* cycle(['|', '/', '-', '\\'])
SpinnerCycle == <<"|", "/", "-", "\\">>

\* the write of one frame of the animation
FrameWrite(msg, n) == [kind |-> "frame", text |-> msg \o " " \o SpinnerCycle[n + 1] \o "   "]

\* the write that clears the line: len(message) + 10 blanks
ClearWrite(msg) == [kind |-> "clear", width |-> Len(msg) + 10]

\* __enter__: self.running = True
EnterSetsRunning ==
    /\ pcMain = "enter"
    /\ running' = TRUE
    /\ pcMain' = "start"
    /\ UNCHANGED <<pcSpin, message, thread, spinner, stdout, call_raised, othersSpinner>>

\* __enter__: the thread is created and started
EnterStartsThread ==
    /\ pcMain = "start"
    /\ thread' = Some("spin")
    /\ pcSpin' = "test"
    /\ pcMain' = "call"
    /\ UNCHANGED <<message, running, spinner, stdout, call_raised, othersSpinner>>

\* the wrapped call (subprocess.run) returns or raises
CallEnds ==
    /\ pcMain = "call"
    /\ call_raised' \in BOOLEAN
    /\ pcMain' = "exit"
    /\ UNCHANGED <<pcSpin, message, running, thread, spinner, stdout, othersSpinner>>

\* __exit__: self.running = False
ExitClearsRunning ==
    /\ pcMain = "exit"
    /\ running' = FALSE
    /\ pcMain' = "join"
    /\ UNCHANGED <<pcSpin, message, thread, spinner, stdout, call_raised, othersSpinner>>

\* (mutant) __exit__ returns without waiting for the thread
ExitJoins_NoWait ==
    /\ pcMain = "join"
    /\ pcMain' = "exited"
    /\ UNCHANGED <<pcSpin, message, running, thread, spinner, stdout, call_raised,
                   othersSpinner>>

\* __exit__: self.thread.join() returns once the thread has terminated
ExitJoins ==
    /\ pcMain = "join"
    /\ IsNone(thread) \/ pcSpin = "terminated"
    /\ pcMain' = "exited"
    /\ UNCHANGED <<pcSpin, message, running, thread, spinner, stdout, call_raised,
                   othersSpinner>>

\* spin: "while self.running"
SpinTests ==
    /\ pcSpin = "test"
    /\ pcSpin' = IF running THEN "write" ELSE "clear"
    /\ UNCHANGED <<pcMain, message, running, thread, spinner, stdout, call_raised,
                   othersSpinner>>

\* spin: a frame is written and flushed
SpinWrites ==
    /\ pcSpin = "write"
    /\ stdout' = Some(FrameWrite(message, spinner))
    /\ spinner' = (spinner + 1) % Len(SpinnerCycle)
    /\ pcSpin' = "sleep"
    /\ UNCHANGED <<pcMain, message, running, thread, call_raised, othersSpinner>>

\* spin: time.sleep(0.1) returns
SpinSleeps ==
    /\ pcSpin = "sleep"
    /\ pcSpin' = "test"
    /\ UNCHANGED <<pcMain, message, running, thread, spinner, stdout, call_raised,
                   othersSpinner>>

\* spin: the line is cleared and the thread ends
SpinClears ==
    /\ pcSpin = "clear"
    /\ stdout' = Some(ClearWrite(message))
    /\ pcSpin' = "terminated"
    /\ UNCHANGED <<pcMain, message, running, thread, spinner, call_raised, othersSpinner>>

\* the messages of the two callers
SpinnerMessages == { "Exporting WPA profile ppm to .csv ...", "Running ETLWatch analysis ..." }

InitSpinner ==
    /\ pcMain = "enter"
    /\ pcSpin = "unstarted"
    /\ message \in SpinnerMessages
    /\ running = FALSE
    /\ thread = None
    /\ spinner = 0
    /\ stdout = None
    /\ call_raised = FALSE
    /\ fileState = "missing"
    /\ file = <<>>
    /\ col_name_map = None
    /\ IdleMulti
    /\ IdleSingle
    /\ IdleJoin
    /\ IdleHelper
    /\ IdleCalls
    /\ IdleCheck
    /\ IdleExport
    /\ IdleOutputs

\* the steps of the thread
SpinSteps == SpinTests \/ SpinWrites \/ SpinSleeps \/ SpinClears

\* the steps of __exit__
ExitSteps == ExitClearsRunning \/ ExitJoins

NextSpinner ==
    \/ EnterSetsRunning
    \/ EnterStartsThread
    \/ CallEnds
    \/ ExitClearsRunning
    \/ ExitJoins
    \/ SpinTests
    \/ SpinWrites
    \/ SpinSleeps
    \/ SpinClears

SpecSpinner == InitSpinner /\ [][NextSpinner]_vars

\* the scheduler lets the thread run, and the caller goes on in __exit__
SpecSpinnerFair == SpecSpinner /\ WF_vars(SpinSteps) /\ WF_vars(ExitSteps)

(***************************************************************************)
(* process_tool_outputs (app.py).  The content of a message is modelled by *)
(* what ast.literal_eval makes of it: a literal with its value, a text     *)
(* that is used as it is, or a broken literal, on which it raises.  A      *)
(* value is a list of rows or a tuple of three lists of rows.              *)
(***************************************************************************)
ToolMessage(name, form, d) ==
    [type |-> "tool", name |-> name, form |-> form, data |-> d]

AIMessage == [type |-> "ai", name |-> "", form |-> "text", data |-> [kind |-> "text"]]

\* the values the tools return
RowList(rows) == [kind |-> "list", rows |-> rows]

TableTuple(a, b, c) == [kind |-> "tuple", tables |-> <<a, b, c>>]

Text == [kind |-> "text"]

\* data[0].keys()
FirstRowKeys(rows) == { rows[1][n][1] : n \in 1..Len(rows[1]) }

\* the body of the loop for an export_processes_data message
ProcessesUpdate(upd, d) ==
    IF d.kind = "tuple"
    THEN DictSet(DictSet(DictSet(upd, "clock_interrupts_table", RowList(d.tables[1])),
                         "process_lifetime_table", RowList(d.tables[2])),
                 "cpu_lifetime_table", RowList(d.tables[3]))
    ELSE IF d.kind = "list" /\ Len(d.rows) > 0
    THEN IF "Number of Clock Interrupts" \in FirstRowKeys(d.rows)
         THEN DictSet(upd, "clock_interrupts_table", d)
         ELSE IF "Process" \in FirstRowKeys(d.rows)
         THEN DictSet(upd, "process_lifetime_table", d)
         ELSE IF "CPU" \in FirstRowKeys(d.rows)
         THEN DictSet(upd, "cpu_lifetime_table", d)
         ELSE upd
    ELSE upd

\* the body of the loop for one ToolMessage: a broken literal raises and
\* the except clause leaves updates as it is
MessageUpdate(upd, m) ==
    IF m.form = "broken" THEN upd
    ELSE IF m.name = "export_ppm_data" THEN DictSet(upd, "ppm_table", m.data)
    ELSE IF m.name = "export_processes_data" THEN ProcessesUpdate(upd, m.data)
    ELSE upd

\* for message in reversed(state["messages"]): a ToolMessage is handled
OutputsTakes ==
    /\ pcOutputs = "loop"
    /\ cursor > 0
    /\ messages[cursor].type = "tool"
    /\ updates' = MessageUpdate(updates, messages[cursor])
    /\ cursor' = cursor - 1
    /\ UNCHANGED <<pcOutputs, messages, othersOutputs>>

\* a message that is no ToolMessage, or the end of the list: return updates
OutputsReturns ==
    /\ pcOutputs = "loop"
    /\ IF cursor = 0 THEN TRUE ELSE messages[cursor].type # "tool"
    /\ pcOutputs' = "done"
    /\ UNCHANGED <<messages, cursor, updates, othersOutputs>>

\* ---- the message lists ----
MaxMessages == 3

PpmRows(profile) == <<<<<<"ProfileName", profile>>>>>>

ClockRows == <<<<<<"CPU", "0">>, <<"Number of Clock Interrupts", "7">>>>>>

ProcessRows == <<<<<<"Process", "a">>, <<"High QoS (ms)", "1">>>>>>

CpuRows(ms) == <<<<<<"CPU", "0">>, <<"Low QoS (ms)", ms>>>>>>

Messages ==
    { ToolMessage("export_ppm_data", "literal", RowList(PpmRows("A"))),
      ToolMessage("export_ppm_data", "literal", RowList(PpmRows("B"))),
      ToolMessage("export_ppm_data", "broken", Text),
      ToolMessage("export_processes_data", "literal",
                  TableTuple(ClockRows, ProcessRows, CpuRows("2"))),
      ToolMessage("export_processes_data", "literal", RowList(CpuRows("3"))),
      ToolMessage("export_processes_data", "literal", RowList(<<>>)),
      ToolMessage("check_required_tools", "text", Text),
      AIMessage }

InitOutputs ==
    /\ pcOutputs = "loop"
    /\ messages \in UNION { [1..n -> Messages] : n \in 0..MaxMessages }
    /\ cursor = Len(messages)
    /\ updates = <<>>
    /\ fileState = "missing"
    /\ file = <<>>
    /\ col_name_map = None
    /\ IdleMulti
    /\ IdleSingle
    /\ IdleJoin
    /\ IdleHelper
    /\ IdleCalls
    /\ IdleCheck
    /\ IdleExport
    /\ IdleSpinner

NextOutputs ==
    \/ OutputsTakes
    \/ OutputsReturns

SpecOutputs == InitOutputs /\ [][NextOutputs]_vars

(***************************************************************************)
(* Properties of _parse_multi_table_csv                                    *)
(***************************************************************************)
\* line k ends a block of rows: the end of the input, a blank line or a
\* line without comma
IsBreak(k) ==
    k >= Len(lines) \/ LineAt(lines, k) = "" \/ ~HasComma(LineAt(lines, k))

\* the first line after header h that ends its block
BlockEnd(h) ==
    CHOOSE k \in (h + 1)..Len(lines) :
        IsBreak(k) /\ \A m \in (h + 1)..(k - 1) : ~IsBreak(m)

Width(k) == Len(Fields(LineAt(lines, k)))

\* the lines of the block of header h that have the header's width
ValidRows(h) == { k \in (h + 1)..(BlockEnd(h) - 1) : Width(k) = Width(h) }

\* line h is classified as a header and has a row of its width
StartsTable(h) ==
    /\ HasComma(LineAt(lines, h))
    /\ _feels_like_header(Fields(LineAt(lines, h)))
    /\ ValidRows(h) # {}

\* the elements of a set of numbers in ascending order
RECURSIVE Ascending(_)
Ascending(S) ==
    IF S = {} THEN <<>>
    ELSE LET m == CHOOSE x \in S : \A y \in S : x <= y
         IN <<m>> \o Ascending(S \ {m})

Renamed(name) ==
    IF IsNone(col_name_map) THEN name ELSE MapGet(Unwrap(col_name_map), name)

\* line k read as a row under the header at line h
RowOf(h, k) ==
    LET hf == Fields(LineAt(lines, h))
        rf == Fields(LineAt(lines, k))
    IN [c \in 1..Len(hf) |-> <<Renamed(hf[c]), rf[c]>>]

\* the table the block of header h should give
ExpectedRows(h) ==
    LET idx == Ascending(ValidRows(h)) IN [n \in 1..Len(idx) |-> RowOf(h, idx[n])]

\* the title lines between the end of the table before stored[n] and its header
GapStart(n) == IF n = 1 THEN 0 ELSE stored[n - 1].j

TitleLines(n) ==
    { k \in GapStart(n)..(stored[n].at - 1) :
        LineAt(lines, k) # "" /\ ~HasComma(LineAt(lines, k)) }

\* the Property/Value record of a two-field line
RecordOf(k) ==
    LET f == Fields(LineAt(lines, k)) IN <<<<"Property", f[1]>>, <<"Value", f[2]>>>>

IsRecord(row) == Len(row) = 2 /\ row[1][1] = "Property" /\ row[2][1] = "Value"

\* the scan positions at which a comma line started no table
NonTableVisits ==
    SelectSeq(visited, LAMBDA v : HasComma(LineAt(lines, v.at)) /\ ~StartsTable(v.at))

\* ... and had exactly two fields
RecordVisits == SelectSeq(NonTableVisits, LAMBDA v : Width(v.at) = 2)

\* a Metadata record was appended before the scan reached line k
MetadataBefore(k) == \E n \in 1..Len(RecordVisits) : RecordVisits[n].at < k

\* the titles in use when stored[n] was stored
TakenBefore(n) ==
    { stored[m].unique_title : m \in 1..(n - 1) }
        \cup (IF MetadataBefore(stored[n].at) THEN {"Metadata"} ELSE {})

Suffixed(title, c) == title \o "_" \o ToString(c)

\* C1 (as claimed): every table of the returned collection consists of
\* exactly the lines of its header's block that have the header's width, in
\* their order, and of nothing else.
C1_TableIsExactlyTheValidRows ==
    pcMulti = "done" =>
        \A n \in 1..Len(stored) :
            /\ DictHas(tables, stored[n].unique_title)
            /\ DictGet(tables, stored[n].unique_title) = ExpectedRows(stored[n].at)

\* C5 (as claimed): the n-th table (n = 0, 1, 2, ...) that asks for title T
\* is stored as T when n = 0 and as T_n otherwise, the Metadata entry made
\* by a two-field line counting as an earlier holder of the title Metadata.
C5_SuffixesCountEncounters ==
    \A n \in 1..Len(stored) :
        LET t == stored[n].title
            earlier == Cardinality({ m \in 1..(n - 1) : stored[m].title = t })
                       + (IF t = "Metadata" /\ MetadataBefore(stored[n].at)
                             /\ ~\E m \in 1..(n - 1) : stored[m].unique_title = "Metadata"
                          THEN 1 ELSE 0)
        IN stored[n].unique_title = IF earlier = 0 THEN t ELSE Suffixed(t, earlier)

\* C5 (amended): the titles of the stored tables are pairwise different, no
\* stored table is replaced (its rows stay, in place, under its title), the
\* collection holds one entry per header block that had a valid row (plus
\* the Metadata entry when a two-field line created it), and a table whose
\* title T is taken is stored as T_c for the least c >= 1 with T_c free.
C5_UniqueTitlesNothingOverwritten ==
    /\ \A m, n \in 1..Len(stored) :
           m # n => stored[m].unique_title # stored[n].unique_title
    /\ \A n \in 1..Len(stored) :
           /\ DictHas(tables, stored[n].unique_title)
           /\ LET now == DictGet(tables, stored[n].unique_title)
              IN Len(now) >= Len(stored[n].rows)
                 /\ SubSeq(now, 1, Len(stored[n].rows)) = stored[n].rows
    /\ Len(stored) = Cardinality({ n \in 1..Len(visited) : StartsTable(visited[n].at) })
    /\ Len(tables) = Len(stored)
                     + (IF \E n \in 1..Len(RecordVisits) :
                              ~\E m \in 1..Len(stored) :
                                  /\ stored[m].unique_title = "Metadata"
                                  /\ stored[m].at < RecordVisits[n].at
                        THEN 1 ELSE 0)
    /\ \A n \in 1..Len(stored) :
           LET t == stored[n].title
               u == stored[n].unique_title
           IN IF t \notin TakenBefore(n) THEN u = t
              ELSE \E c \in 1..Len(stored) :
                      /\ u = Suffixed(t, c)
                      /\ u \notin TakenBefore(n)
                      /\ \A d \in 1..(c - 1) : Suffixed(t, d) \in TakenBefore(n)

\* three tables with the same title have been stored as T, T_1, T_2
C5_Witness ==
    /\ pcMulti = "done"
    /\ Len(stored) = 3
    /\ \A n \in 1..3 : stored[n].title = "T"
    /\ <<stored[1].unique_title, stored[2].unique_title, stored[3].unique_title>>
           = <<"T", "T_1", "T_2">>

\* C6 (as claimed): the Metadata entry of the returned collection holds
\* Property/Value records only, and no data table is stored under it.
C6_MetadataIsReserved ==
    pcMulti = "done" =>
        /\ \A n \in 1..Len(stored) : stored[n].unique_title # "Metadata"
        /\ DictHas(tables, "Metadata") =>
               \A n \in 1..Len(DictGet(tables, "Metadata")) :
                   IsRecord(DictGet(tables, "Metadata")[n])

\* C7 (as claimed): a table with no title line since the previous table, or
\* since the start of the input, asks for the title "Unnamed Table".
C7_UntitledIsUnnamedTable ==
    \A n \in 1..Len(stored) :
        TitleLines(n) = {} => stored[n].title = "Unnamed Table"

\* C8: a table with title lines since the previous table (or the start) is
\* stored under the last of them, whatever lines lie in between; a table
\* after another one with no title line in between finds no pending title:
\* the title of the previous table is not used again.
C8_LastTitleNamesTheTable ==
    \A n \in 1..Len(stored) :
        /\ TitleLines(n) # {} =>
               /\ stored[n].pending = Some(LineAt(lines, LastOf(TitleLines(n))))
               /\ stored[n].title = LineAt(lines, LastOf(TitleLines(n)))
        /\ (TitleLines(n) = {} /\ n > 1) => stored[n].pending = None
        /\ (pcMulti = "scan" /\ n = Len(stored) /\ i = stored[n].j) =>
               current_title = None

\* a table was stored under the later of two different title lines, and the
\* scan has ended with the pending title cleared
C8_Witness ==
    /\ pcMulti = "done"
    /\ i = Len(lines)
    /\ Len(stored) = 1
    /\ Cardinality({ LineAt(lines, k) : k \in TitleLines(1) }) = 2
    /\ stored[1].title = LineAt(lines, LastOf(TitleLines(1)))
    /\ current_title = None

\* C9: every comma line examined at the scan position that starts no table
\* moves the scan on by one line, and the Property/Value records of the
\* Metadata entry are those of the two-field lines among them, one each, in
\* input order.
C9_MetadataRecords ==
    /\ \A n \in 1..Len(NonTableVisits) :
           NonTableVisits[n].next = NonTableVisits[n].at + 1
    /\ LET recs == [n \in 1..Len(RecordVisits) |-> RecordOf(RecordVisits[n].at)]
           meta == IF DictHas(tables, "Metadata") THEN DictGet(tables, "Metadata")
                   ELSE <<>>
           own == SelectSeq(meta, IsRecord)
       IN /\ own = recs
          /\ \A n \in 1..Len(tables) :
                 tables[n][1] # "Metadata" =>
                     \A r \in 1..Len(tables[n][2]) : ~IsRecord(tables[n][2][r])

\* two-field and other lines that started no table have been examined,
\* headers without valid row among them, and two records are in Metadata
C9_Witness ==
    /\ pcMulti = "done"
    /\ Len(RecordVisits) >= 2
    /\ Len(NonTableVisits) > Len(RecordVisits)
    /\ \E n \in 1..Len(RecordVisits) :
           _feels_like_header(Fields(LineAt(lines, RecordVisits[n].at)))
    /\ \E n \in 1..Len(RecordVisits) :
           ~_feels_like_header(Fields(LineAt(lines, RecordVisits[n].at)))

(***************************************************************************)
(* Properties of _parse_single_table_csv                                   *)
(***************************************************************************)
\* the call read a header and met no I/O error
ParsedFile ==
    /\ pcSingle = "done"
    /\ fileState = "readable"
    /\ NextRow(file, 0) # 0
    /\ outcome # "read error"

\* the header tokens, stripped
HeaderNames ==
    LET h == SplitComma(file[NextRow(file, 0)]) IN [c \in 1..Len(h) |-> Strip(h[c])]

\* the lines that hold a data row
DataLines == { k \in (NextRow(file, 0) + 1)..Len(file) : file[k] # "" }

\* the original name of a requested column
OriginalName(col) ==
    IF IsNone(col_name_map) THEN col
    ELSE LET m == Unwrap(col_name_map)
         IN IF \E k \in DOMAIN m : m[k] = col THEN CHOOSE k \in DOMAIN m : m[k] = col
            ELSE col

\* the name a header column is returned under
TargetName(name) ==
    IF IsNone(col_name_map) THEN name ELSE MapGet(Unwrap(col_name_map), name)

\* the number of the header column named name, 0 when there is none
ColumnOf(name) ==
    LET S == { c \in 1..Len(HeaderNames) : HeaderNames[c] = name }
    IN IF S = {} THEN 0 ELSE LastOf(S)

\* the value of column c of data line k, transformed
Transformed(k, c, target) ==
    LET v == Strip(SplitComma(file[k])[c])
        named == IF HeaderNames[c] = "Process" THEN _format_process_name(v) ELSE v
    IN IF target = "SettingValue" THEN _format_setting_value(named) ELSE named

\* the requested group-by columns the header has
Remaining(gb) == SelectSeq(gb, LAMBDA col : ColumnOf(OriginalName(col)) # 0)

\* the group of data line k: its transformed values of those columns
GroupOf(k) ==
    LET rem == Remaining(Unwrap(group_by))
    IN [n \in 1..Len(rem) |-> Transformed(k, ColumnOf(OriginalName(rem[n])), rem[n])]

\* the Runtime of data line k, 0 when it is no number
RuntimeValue(k) ==
    LET x == ParseFloat(Strip(SplitComma(file[k])[ColumnOf(OriginalName("Runtime"))]))
    IN IF IsNone(x) THEN 0 ELSE Unwrap(x)

RECURSIVE TotalRuntime(_)
TotalRuntime(S) ==
    IF S = {} THEN 0
    ELSE LET k == CHOOSE x \in S : TRUE IN RuntimeValue(k) + TotalRuntime(S \ {k})

\* the values of a returned row, without its total
GroupValues(x) ==
    LET v == SelectSeq(x, LAMBDA pr : pr[1] # "Total runtime")
    IN [n \in 1..Len(v) |-> v[n][2]]

\* the data lines that have a field for every header column
FullRows == { k \in DataLines : Len(SplitComma(file[k])) >= Len(HeaderNames) }

\* C2 (as claimed): with group_by=None, whether or not a rename map is
\* given, the result has one row per data row, in input order, holding
\* every header column under its renamed or original name, in header order
\* (here for files whose data rows all have the width of the header).
C2_OneRowPerInputRow ==
    (/\ ParsedFile
     /\ IsNone(group_by)
     /\ \A k \in DataLines : Len(SplitComma(file[k])) = Len(HeaderNames))
    => LET idx == Ascending(DataLines)
       IN result = [n \in 1..Len(idx) |->
                      [c \in 1..Len(HeaderNames) |->
                         <<TargetName(HeaderNames[c]),
                           Transformed(idx[n], c, TargetName(HeaderNames[c]))>>]]

\* C3 (as claimed): with a non-empty group_by (and a Runtime column), the
\* result has exactly one row per distinct tuple of transformed group-column
\* values of the data rows, with the sum of their Runtime values, a value
\* that is no number counting as 0 (the data rows being those that have a
\* field for every header column).
C3_OneRowPerGroupWithItsSum ==
    (/\ ParsedFile
     /\ ~IsNone(group_by)
     /\ ColumnOf(OriginalName("Runtime")) # 0)
    => /\ Len(result) = Cardinality({ GroupOf(k) : k \in FullRows })
       /\ \A m, n \in 1..Len(result) :
              m # n => GroupValues(result[m]) # GroupValues(result[n])
       /\ \A n \in 1..Len(result) :
              LET members == { k \in FullRows : GroupOf(k) = GroupValues(result[n]) }
              IN /\ members # {}
                 /\ DictHas(result[n], "Total runtime")
                 /\ DictGet(result[n], "Total runtime") = TotalRuntime(members)

\* the whole row loop in grouping mode, from line p on: the summary, or
\* None when a row raises
RECURSIVE GroupedRows(_, _, _, _, _, _, _)
GroupedRows(f, p, fnames, gkeys, kr, inv, sm) ==
    IF NextRow(f, p) = 0 THEN Some(sm)
    ELSE LET next == GroupedRow(fnames, gkeys, kr, inv, sm, SplitComma(f[NextRow(f, p)]))
         IN IF IsNone(next) THEN None
            ELSE GroupedRows(f, NextRow(f, p), fnames, gkeys, kr, inv, Unwrap(next))

\* what the call returns for file f grouped by gb, when no read fails
GroupedParse(f, gb, cmap) ==
    LET fnames == SplitComma(f[NextRow(f, 0)])
        inv == InverseColMap(cmap)
        sm == GroupedRows(f, NextRow(f, 0), fnames, GroupKeysGrouping(fnames, gb, inv),
                          HeaderMapGet(fnames, MapGet(inv, "Runtime")), inv, <<>>)
    IN IF IsNone(sm) THEN [outcome |-> "raised", result |-> <<>>]
       ELSE [outcome |-> "returned", result |-> GroupedResult(gb, Unwrap(sm))]

\* the groups of a result: the values and the total of each row, in order
Groups(res) ==
    [n \in 1..Len(res) |-> <<GroupValues(res[n]), DictGet(res[n], "Total runtime")>>]

\* C10: a requested group-by column the header does not have is left out of
\* the key and does not abort the parse: the call ends as the call with
\* only the remaining requested columns ends, with the same groups (one
\* value per remaining column) and totals, in the same order.
C10_MissingGroupColumnIsSkipped ==
    (ParsedFile /\ ~IsNone(group_by))
    => LET rem == Remaining(Unwrap(group_by))
           other == GroupedParse(file, rem, col_name_map)
       IN /\ outcome = other.outcome
          /\ Groups(result) = Groups(other.result)
          /\ \A n \in 1..Len(result) : Len(GroupValues(result[n])) = Len(rem)

\* a parse with a requested column the header lacks has returned two groups
C10_Witness ==
    /\ ParsedFile
    /\ outcome = "returned"
    /\ ~IsNone(group_by)
    /\ Len(Remaining(Unwrap(group_by))) = 1
    /\ Len(Unwrap(group_by)) = 2
    /\ \E c \in {"Nope", "Qos"} : <<"not found", c>> \in log
    /\ Len(result) = 2

(***************************************************************************)
(* Properties of the join of export_ppm_data                               *)
(***************************************************************************)
\* the column names of a row
Columns(d) == { d[n][1] : n \in 1..Len(d) }

\* a row as a mapping of its column names
Mapping(d) == [c \in Columns(d) |-> DictGet(d, c)]

\* the left rows that have the ProfileId of right row r (a row without the
\* column has the ProfileId None)
Matching(r) ==
    { j \in 1..Len(profilerundown_data) :
        DictGetOpt(profilerundown_data[j], "ProfileId") = DictGetOpt(r, "ProfileId") }

\* d is the field union of left row l and right row r, the right row winning
IsUnion(d, l, r) ==
    /\ Cardinality(Columns(d)) = Len(d)
    /\ Mapping(d) = [c \in Columns(l) \cup Columns(r) |->
                       IF c \in Columns(r) THEN DictGet(r, c) ELSE DictGet(l, c)]

\* C4: before the column filtering, data holds one record per right row
\* taken, in the order of the right table: the field union of a left row of
\* the same ProfileId (the last one) and the right row, the right row
\* winning on every shared column, or the right row itself when no left row
\* has its ProfileId; a left row no right row matches is not in data.
C4_JoinKeepsEveryRightRow ==
    (pcJoin \in {"loop", "filter"})
    => /\ Len(data) = settingIndex
       /\ pcJoin = "filter" => Len(data) = Len(profilesettingrundown_data)
       /\ \A k \in 1..Len(data) :
             LET r == profilesettingrundown_data[k]
             IN IF Matching(r) = {} THEN data[k] = r
                ELSE IsUnion(data[k], profilerundown_data[LastOf(Matching(r))], r)
       /\ \A j \in 1..Len(profilerundown_data) :
             (\A k \in 1..Len(profilesettingrundown_data) :
                  j \notin Matching(profilesettingrundown_data[k]))
             => \A k \in 1..Len(data) : data[k] # profilerundown_data[j]

\* the loop has joined a right row with a left row that shares a column of
\* another value, and kept a right row no left row matches, while a left
\* row matched no right row
C4_Witness ==
    /\ pcJoin = "filter"
    /\ \E k \in 1..Len(data) :
          LET r == profilesettingrundown_data[k]
          IN /\ Matching(r) # {}
             /\ DictHas(r, "ProfileId")
             /\ DictGet(profilerundown_data[LastOf(Matching(r))], "Event Name")
                    # DictGet(r, "Event Name")
             /\ DictHas(data[k], "ProfileName")
    /\ \E k \in 1..Len(data) : Matching(profilesettingrundown_data[k]) = {}
    /\ \E j \in 1..Len(profilerundown_data) :
          \A k \in 1..Len(profilesettingrundown_data) :
              j \notin Matching(profilesettingrundown_data[k])

\* the whole row loop without grouping, from line p on: the result, or None
\* when a row raises
RECURSIVE PlainRows(_, _, _, _, _, _)
PlainRows(f, p, fnames, gkeys, inv, res) ==
    IF NextRow(f, p) = 0 THEN Some(res)
    ELSE LET next == PlainRow(fnames, gkeys, inv, res, SplitComma(f[NextRow(f, p)]))
         IN IF IsNone(next) THEN None
            ELSE PlainRows(f, NextRow(f, p), fnames, gkeys, inv, Unwrap(next))

\* what the call returns for file f without grouping, when no read fails
PlainParse(f, cmap) ==
    IF IsNone(cmap) THEN [outcome |-> "raised", result |-> <<>>]
    ELSE LET fnames == SplitComma(f[NextRow(f, 0)])
             res == PlainRows(f, NextRow(f, 0), fnames,
                              GroupKeysAll(fnames, Unwrap(cmap)), InverseColMap(cmap), <<>>)
         IN IF IsNone(res) THEN [outcome |-> "raised", result |-> <<>>]
            ELSE [outcome |-> "returned", result |-> Unwrap(res)]

\* what the call returns for a readable file f, when no read fails
Parse(f, gb, cmap) ==
    IF NextRow(f, 0) = 0 THEN [outcome |-> "returned", result |-> <<>>]
    ELSE IF IsNone(gb) THEN PlainParse(f, cmap)
    ELSE GroupedParse(f, Unwrap(gb), cmap)

\* the data lines whose field count is not the header's
Malformed(f) ==
    { k \in (NextRow(f, 0) + 1)..Len(f) :
        f[k] # "" /\ Len(SplitComma(f[k])) # Len(SplitComma(f[NextRow(f, 0)])) }

\* file f without the lines of S
WithoutLines(f, S) ==
    LET idx == Ascending(1..Len(f) \ S) IN [n \in 1..Len(idx) |-> f[idx[n]]]

\* C11 (as claimed): a data row with fewer or more fields than the header
\* is dropped without affecting any other row: the result is the result of
\* parsing the same input with those rows removed.
C11_MalformedRowsAreDropped ==
    ParsedFile
    => result = Parse(WithoutLines(file, Malformed(file)), group_by, col_name_map).result

\* the files that have the lines of f up to its header, and its later lines
\* in some order
Reordered(f) ==
    LET h == NextRow(f, 0)
    IN { [k \in 1..Len(f) |-> IF k <= h THEN f[k] ELSE f[h + p[k - h]]] :
           p \in Permutations(1..(Len(f) - h)) }

\* C12 (as claimed): grouped aggregation does not depend on the order of
\* the data rows: every permutation of the rows of the input gives the same
\* sequence of rows, with the same totals.
C12_GroupingIgnoresRowOrder ==
    (ParsedFile /\ ~IsNone(group_by))
    => \A g \in Reordered(file) : result = Parse(g, group_by, col_name_map).result

\* C13: in grouped mode the returned rows are in ascending order of the
\* lists of their group-by column values, compared as strings, column by
\* column in group_by order.
C13_GroupedRowsAreSorted ==
    (ParsedFile /\ ~IsNone(group_by))
    => \A n \in 1..(Len(result) - 1) :
           ListLess(GroupValues(result[n]), GroupValues(result[n + 1]))

\* a grouped parse has returned rows in another order than their groups
\* first occurred in the input
C13_Witness ==
    /\ ParsedFile
    /\ ~IsNone(group_by)
    /\ outcome = "returned"
    /\ Len(result) >= 2
    /\ Len(summary) = Len(result)
    /\ summary[1][1] # GroupValues(result[1])
    /\ Len(GroupValues(result[1])) = 2

(***************************************************************************)
(* Properties of the helper functions                                      *)
(***************************************************************************)
\* helper function h has returned
Returned(h) == pcHelper = "done" /\ helper = h

\* v without a leading '-'
Unsigned(v) == IF v # "" /\ Head(v) = "-" THEN Tail(v) ELSE v

\* s is made of digits and dots only
DigitsAndDots(s) == \A n \in 1..Len(s) : SubSeq(s, n, n) \in Digits \cup {"."}

\* s is a run of digits with at most one decimal point in it
DecimalNumeral(s) ==
    /\ DigitsAndDots(s)
    /\ \E n \in 1..Len(s) : SubSeq(s, n, n) \in Digits
    /\ Cardinality({ n \in 1..Len(s) : SubSeq(s, n, n) = "." }) <= 1

\* v is, in full, an optional '-', a part satisfying IsNumber, and an
\* optional unit suffix in any letter case
NumericWith(IsNumber(_), v) ==
    \E k \in 1..Len(Unsigned(v)) :
        /\ IsNumber(SubSeq(Unsigned(v), 1, k))
        /\ LowerStr(SubSeq(Unsigned(v), k + 1, Len(Unsigned(v)))) \in UnitSuffixes \cup {""}

\* C14 (as claimed): _feels_like_header returns false iff fields is empty
\* or some non-empty field is, in full, an optional '-', digits with an
\* optional decimal point, and an optional unit suffix in any letter case.
C14_RejectsDecimalNumerals ==
    Returned("_feels_like_header")
    => (returns[1] = FALSE
        <=> \/ argFields = <<>>
            \/ \E n \in 1..Len(argFields) :
                  argFields[n] # "" /\ NumericWith(DecimalNumeral, argFields[n]))

\* C14 (amended): ... or some non-empty field is, in full, an optional '-',
\* one or more characters each of which is a digit or a dot, and an optional
\* unit suffix in any letter case; empty fields never disqualify.
C14_RejectsDigitsAndDots ==
    Returned("_feels_like_header")
    => (returns[1] = FALSE
        <=> \/ argFields = <<>>
            \/ \E n \in 1..Len(argFields) :
                  argFields[n] # "" /\ NumericWith(DigitsAndDots, argFields[n]))

\* the call has rejected fields of which one is empty and the other is made
\* of digits and two dots
C14_Witness ==
    /\ Returned("_feels_like_header")
    /\ argFields = <<"", "1.2.3">>
    /\ returns[1] = FALSE

\* the concatenation of the first n strings of parts, last one first
RECURSIVE ReversedConcat(_, _)
ReversedConcat(parts, n) ==
    IF n = 0 THEN "" ELSE parts[n] \o ReversedConcat(parts, n - 1)

\* C15: _format_setting_value returns its input unchanged when it has fewer
\* than 2 whitespace-separated tokens; otherwise, for a length token and k
\* byte tokens, it returns '0x' and the first min(k, 4) byte tokens in
\* reverse order, whatever the length token is.
C15_SettingValueIsDecoded ==
    Returned("_format_setting_value")
    => LET tokens == SplitWhitespace(argVal)
           bytes == SubSeq(tokens, 2, Len(tokens))
       IN IF Len(tokens) < 2 THEN returns[1] = argVal
          ELSE returns[1] = "0x" \o ReversedConcat(bytes, Min(Len(bytes), 4))

\* a payload of ten bytes has been decoded from its first four
C15_Witness ==
    /\ Returned("_format_setting_value")
    /\ Len(SplitWhitespace(argVal)) = 11
    /\ returns = <<"0x04030201">>

\* C16: _format_process_name returns the part of the value before the first
\* ' (', the value itself when it has no ' (', and applying it to its own
\* result changes nothing.
C16_ProcessNameIsStripped ==
    Returned("_format_process_name")
    => LET at == { n \in 1..(Len(argVal) - 1) : SubSeq(argVal, n, n + 1) = " (" }
       IN /\ returns[1] =
                 IF at = {} THEN argVal
                 ELSE SubSeq(argVal, 1, (CHOOSE n \in at : \A m \in at : n <= m) - 1)
          /\ \A n \in 2..Len(returns) : returns[n] = returns[1]

\* a value with two ' (' has been stripped, and the result stripped again
C16_Witness ==
    /\ Returned("_format_process_name")
    /\ argVal = "a (1) (2)"
    /\ returns = <<"a", "a">>

(***************************************************************************)
(* Properties of the error handling                                        *)
(***************************************************************************)
\* the call of _parse_single_table_csv has ended on a missing file or on
\* an error
SingleFailed == pcSingle = "done" /\ outcome \in {"missing", "raised", "read error"}

\* the call of _parse_multi_table_csv has ended on a missing file or on an
\* error
MultiFailed == pcMulti = "done" /\ (fileState # "readable" \/ i < Len(lines))

C18_MultiErrorReturnsNothing == MultiFailed => tables = <<>>

(***************************************************************************)
(* Properties of the column lookup                                         *)
(***************************************************************************)
\* a name without its surrounding whitespace, in lower case
Normalized(s) == LowerCase(Strip(s))

\* C20 (as claimed): a requested group-by column is resolved to a header
\* token by a lookup that ignores letter case and surrounding whitespace:
\* a requested name that differs from a header token in these only selects
\* that column.
C20_LookupIgnoresCaseAndSpace ==
    (pcSingle = "rows" /\ ~IsNone(group_by))
    => \A n \in 1..Len(Unwrap(group_by)) :
         LET col == Unwrap(group_by)[n]
             fnames == Unwrap(fieldnames)
         IN \A c \in 1..Len(fnames) :
               Normalized(fnames[c]) = Normalized(OriginalName(col))
               => \E k \in 1..Len(group_keys) :
                     /\ group_keys[k][1] = col
                     /\ Normalized(group_keys[k][2]) = Normalized(fnames[c])

(***************************************************************************)
(* Properties of calls made side by side and in sequence                   *)
(***************************************************************************)
\* what a call returns when it is the only one: its steps taken one after
\* the other, with the default list as the function definition made it
RECURSIVE RunAlone(_)
RunAlone(fr) ==
    IF fr.pc = "done" THEN fr.result ELSE RunAlone(FrameStep(fr, DefaultGroupBy))

\* the call of caller c, before it begins
CallOf(c) ==
    StartFrame(frames[c].fn, frames[c].file, frames[c].omitted, frames[c].group_by,
               frames[c].col_name_map)

\* C19: every call returns what the same call returns when it runs alone,
\* whatever the other caller did meanwhile and whatever calls were made
\* before it, and the default list of group_by stays what it was
C19_CallsShareNoState ==
    /\ default_group_by = DefaultGroupBy
    /\ \A c \in Callers :
          /\ frames[c].pc = "done" => frames[c].result = RunAlone(CallOf(c))
          /\ \A n \in 1..Len(returned[c]) : returned[c][n] = RunAlone(CallOf(c))

\* both callers omitted group_by, on files with different columns; each
\* has returned from its second call, made while the other was in the
\* middle of one
C19_Witness ==
    /\ \A c \in Callers :
          /\ frames[c].pc = "done"
          /\ frames[c].fn = "single"
          /\ frames[c].omitted
          /\ frames[c].overlapped
          /\ frames[c].result # <<>>
          /\ Len(returned[c]) = 1
    /\ frames[1].file[1] = "Process,Runtime"
    /\ frames[2].file[1] = "Process, CPU,Runtime"

(***************************************************************************)
(* Properties of the warnings of _parse_single_table_csv                   *)
(***************************************************************************)
\* the names of group_by are the process column and the QoS column, in
\* either order
IsProcessAndQos(gb) ==
    /\ Len(gb) = 2
    /\ { OriginalName(gb[1]), OriginalName(gb[2]) } = {"Process", "Qos"}

\* C21: a call that groups by the process column and the QoS column only
\* logs the inflated-total warning once it is past the check of the file
C21_ProcessQosIsFlagged ==
    (/\ pcSingle \in {"rows", "done"}
     /\ outcome # "missing"
     /\ ~IsNone(group_by)
     /\ IsProcessAndQos(Unwrap(group_by)))
    => <<"inflated total">> \in log

(***************************************************************************)
(* Properties of the column names of the grouped rows                      *)
(***************************************************************************)
\* the names a returned row has, without its total
GroupNames(x) == { x[n][1] : n \in { m \in 1..Len(x) : x[m][1] # "Total runtime" } }

\* C25: a grouped result names its values by their own columns: a row has
\* exactly the requested columns the header has, and the value under each
\* is the transformed value of that column in a data row
C25_ValuesKeepTheirColumn ==
    (ParsedFile /\ outcome = "returned" /\ ~IsNone(group_by))
    => \A n \in 1..Len(result) :
         LET rem == Remaining(Unwrap(group_by))
         IN /\ GroupNames(result[n]) = { rem[m] : m \in 1..Len(rem) }
            /\ \E k \in DataLines :
                  \A m \in 1..Len(rem) :
                      DictGet(result[n], rem[m])
                        = Transformed(k, ColumnOf(OriginalName(rem[m])), rem[m])

(***************************************************************************)
(* Properties of a grouped parse without a Runtime column                  *)
(***************************************************************************)
\* group_by is given, and the header has no column that is Runtime once
\* the rename map is inverted
NoRuntimeColumn ==
    /\ ~IsNone(group_by)
    /\ fileState = "readable"
    /\ NextRow(file, 0) # 0
    /\ ColumnOf(OriginalName("Runtime")) = 0

\* C27: a grouped parse of a file with a data row and no Runtime column
\* returns the empty list
C27_NoRuntimeReturnsNothing ==
    (pcSingle = "done" /\ NoRuntimeColumn /\ DataLines # {}) => result = <<>>

\* the first data row has a value for every header column, the header has
\* no Runtime column, and the call has ended in the except clause
C27_Witness ==
    /\ pcSingle = "done"
    /\ NoRuntimeColumn
    /\ group_by = Some(<<"Process", "CPU">>)
    /\ file = <<"Process,CPU", "a (1),1,1", "a (2), 1,2.5">>
    /\ outcome = "raised"
    /\ pos = 1
    /\ result = <<>>

(***************************************************************************)
(* Properties of the scan index of _parse_multi_table_csv                  *)
(***************************************************************************)
\* C24: every pass of the outer loop moves i forward, never beyond the
\* number of lines, and a call that reads its lines returns
C24_ScanAdvancesAndEnds ==
    /\ [][(pcMulti = "scan" /\ pcMulti' = "scan") => (i < i' /\ i' <= Len(lines))]_vars
    /\ [][(pcMulti = "scan" /\ pcMulti' = "done" /\ i >= Len(lines)) => i = Len(lines)]_vars
    /\ (pcMulti = "scan") ~> (pcMulti = "done")

\* the loop has ended at the number of lines, after a pass that moved i by
\* one and a pass that moved it past the rows of a table
C24_Witness ==
    /\ pcMulti = "done"
    /\ i = Len(lines)
    /\ \E n \in 1..Len(visited) : visited[n].next = visited[n].at + 1
    /\ \E n \in 1..Len(visited) :
          visited[n].kind = "table" /\ visited[n].next > visited[n].at + 2

(***************************************************************************)
(* Properties of a header without rows in _parse_multi_table_csv           *)
(***************************************************************************)
\* the line at the scan index is classified as a header and no line after
\* it is a row of its width
HeaderWithoutRows ==
    /\ pcMulti = "scan"
    /\ i < Len(lines)
    /\ HasComma(LineAt(lines, i))
    /\ _feels_like_header(Fields(LineAt(lines, i)))
    /\ TableAt(lines, i).rows = <<>>

\* the entries of a dict of tables other than Metadata
NamedTables(tbls) == SelectSeq(tbls, LAMBDA pr : pr[1] # "Metadata")

\* C26: the pass over a header without rows stores no table, leaves the
\* pending title as it is and moves the scan to the very next line
C26_HeaderWithoutRowsIsPassed ==
    [][(HeaderWithoutRows /\ pcMulti' = "scan")
       => /\ i' = i + 1
          /\ current_title' = current_title
          /\ stored' = stored
          /\ NamedTables(tables') = NamedTables(tables)]_vars

\* after a title, a three-column header was followed by a two-field line,
\* which the row loop passed over; the scan then took that line from the
\* very next index and made a Metadata record of it, the title still pending
C26_Witness ==
    /\ pcMulti = "scan"
    /\ stored = <<>>
    /\ Len(visited) = 3
    /\ visited[1].kind = "title"
    /\ visited[2].kind = "other"
    /\ _feels_like_header(Fields(LineAt(lines, visited[2].at)))
    /\ TableAt(lines, visited[2].at).j > visited[2].at + 1
    /\ visited[3].at = visited[2].at + 1
    /\ visited[3].kind = "metadata"
    /\ current_title = Some(LineAt(lines, visited[1].at))

(***************************************************************************)
(* Properties of the use of the lines in _parse_multi_table_csv            *)
(***************************************************************************)
\* what line k has become in the output: the header or a row of the n-th
\* table stored, the title it was stored under, or the record made by the
\* n-th pass of the scan
UsesOfLine(k) ==
    { <<"header", n>> : n \in { m \in 1..Len(stored) : stored[m].at = k } }
    \cup { <<"row", n>> : n \in { m \in 1..Len(stored) :
                /\ stored[m].at < k /\ k < stored[m].j
                /\ Width(k) = Width(stored[m].at) } }
    \cup { <<"title", n>> : n \in { m \in 1..Len(stored) :
                /\ TitleLines(m) # {}
                /\ k = LastOf(TitleLines(m))
                /\ stored[m].pending = Some(LineAt(lines, k)) } }
    \cup { <<"record", n>> : n \in { m \in 1..Len(visited) :
                visited[m].kind = "metadata" /\ visited[m].at = k } }

\* the number of rows and records in a dict of tables
RECURSIVE OutputElements(_)
OutputElements(tbls) ==
    IF tbls = <<>> THEN 0 ELSE Len(Head(tbls)[2]) + OutputElements(Tail(tbls))

\* C28: no line is used twice: not as two of header, row, title and
\* Metadata record, and not as a row of two tables; the output has one
\* row or record for every line used as a row or as a record
C28_EachLineIsUsedOnce ==
    pcMulti \in {"scan", "done"}
    => /\ \A k \in 0..(Len(lines) - 1) : Cardinality(UsesOfLine(k)) <= 1
       /\ OutputElements(tables)
            = Cardinality({ k \in 0..(Len(lines) - 1) :
                              \E u \in UsesOfLine(k) : u[1] \in {"row", "record"} })

\* the scan has ended after two tables, one of them under the title of a
\* title line, and a Metadata record
C28_Witness ==
    /\ pcMulti = "done"
    /\ i = Len(lines)
    /\ Len(stored) = 2
    /\ \E k \in 0..(Len(lines) - 1) : \E n \in 1..2 : <<"title", n>> \in UsesOfLine(k)
    /\ \E k \in 0..(Len(lines) - 1) : \E n \in 1..Len(visited) :
          <<"record", n>> \in UsesOfLine(k)
    /\ \A n \in 1..2 : \E k \in 0..(Len(lines) - 1) : <<"row", n>> \in UsesOfLine(k)

(***************************************************************************)
(* Properties of check_required_tools                                      *)
(***************************************************************************)
\* the three tools are on the machine
AllToolsPresent ==
    /\ wpr_on_path
    /\ toolkit_exes # {}
    /\ etlwatch_root
    /\ version_folders # {}
    /\ LatestVersionFolder(version_folders) \in etlwatch_exes

\* C23: check_required_tools returns True exactly when wpr is on PATH,
\* wpaexporter.exe is in a toolkit folder and ETLWatch.exe is in the latest
\* version folder
C23_TrueIffAllToolsPresent ==
    pcCheck = "done" => (Unwrap(checked) <=> AllToolsPresent)

(***************************************************************************)
(* Properties of export_processes_data                                     *)
(***************************************************************************)
\* the call has returned without a parsed report
ExportFailed == pcExport = "done" /\ IsNone(selected)

\* C22: the value returned is a tuple of three row lists or one row list
\* as the successful call with the same table_name returns, and after a
\* failed export or without a stats file every list of it is empty
C22_ShapeFollowsTableName ==
    pcExport = "done"
    => LET v == Unwrap(exported)
       IN /\ v.shape = ReturnOnSuccess(table_name, SelectTables(stats_report)).shape
          /\ v.shape = "tuple" <=> Len(v.values) = 3
          /\ ExportFailed => \A n \in 1..Len(v.values) : v.values[n] = <<>>

(***************************************************************************)
(* Properties of LogSpinner                                                *)
(***************************************************************************)
\* C29: __exit__ is entered after the wrapped call has ended and returns;
\* when it has returned, running is false, the thread has terminated and
\* the last write is the one that clears the line; nothing is written
\* after that
C29_SpinnerStopsBeforeExitReturns ==
    /\ [](pcMain = "exited"
           => /\ ~running
              /\ pcSpin = "terminated"
              /\ stdout = Some(ClearWrite(message)))
    /\ [][pcMain = "exited" => stdout' = stdout]_vars
    /\ [][pcMain' = "join" => (pcMain \in {"exit", "join"} /\ ~running')]_vars
    /\ (pcMain = "exit") ~> (pcMain = "exited")

\* __exit__ has returned after a wrapped call that raised, during which
\* the thread wrote three frames
C29_Witness ==
    /\ pcMain = "exited"
    /\ pcSpin = "terminated"
    /\ spinner = 3
    /\ stdout = Some(ClearWrite(message))
    /\ call_raised

(***************************************************************************)
(* Properties of process_tool_outputs                                      *)
(***************************************************************************)
\* the first message of the run of ToolMessages at the end of the list
RunStart ==
    LET S == { n \in 1..Len(messages) : messages[n].type # "tool" }
    IN IF S = {} THEN 1 ELSE LastOf(S) + 1

StateKeys ==
    { "ppm_table", "clock_interrupts_table", "process_lifetime_table",
      "cpu_lifetime_table" }

\* the messages of the run that hold a result for a state key
ResultsFor(key) ==
    { n \in RunStart..Len(messages) : DictHas(MessageUpdate(<<>>, messages[n]), key) }

\* C30: the update holds, for every state key the run of ToolMessages at
\* the end has a result for, the result of the most recent of them, and no
\* other key
C30_LatestResultWins ==
    pcOutputs = "done"
    => \A key \in StateKeys :
         IF ResultsFor(key) = {} THEN ~DictHas(updates, key)
         ELSE /\ DictHas(updates, key)
              /\ DictGet(updates, key)
                   = DictGet(MessageUpdate(<<>>, messages[LastOf(ResultsFor(key))]), key)

====
